---- MODULE Spec2Model ----
(***************************************************************************)
(* State-machine model of the transaction-processing core:                 *)
(*   - ChronicleStore         (strict DAG ledger,  chronicle/graph_store)  *)
(*   - RollingChronicleStore  (bounded DAG ledger, chronicle/graph_store)  *)
(* A behaviour exercises one ledger instance; `variant` says which one.    *)
(***************************************************************************)
EXTENDS Integers, Sequences, FiniteSets, TLC

\* ------------------------------------------------------------------ bounds
\* Longest parent list a caller submits.
MaxParents == 2
\* Largest configured max_nodes of a rolling ledger (0..MaxNodesCap; the chain
\* callers, who submit one more id, get one more).
MaxNodesCap == 2
\* Width of the bloom filter in bits (the code uses at least 2^20).
BloomBits == 8
\* Cap on a child count (the code's counters are unbounded).
MaxChildCount == 3
\* Longest item list a caller passes to add_batch.
MaxBatch == 2
\* Largest num_shards and replication_factor a router is built with.
MaxShards == 3
MaxReplicas == 2
\* Largest probe a caller passes to the load-aware lookup.
MaxProbe == 3
\* Number of record_shard_load calls followed on one router.
MaxRecords == 2
\* Latest reading of time.time() (readings are 1..MaxClock).
MaxClock == 2
\* Longest transaction list a caller passes to distribute_batch.
MaxTxs == 1
\* Largest dim a ProofOfIntelligence is built with.
MaxDim == 2
\* _cache_max of the scorers explored: the code sets 1024 and uses the field
\* only in the comparison with the size of the cache.
CacheMax == 2

\* ---------------------------------------------------------------- universe
ROOT_ANCHOR == "ROOT"

\* Transaction ids callers submit, besides the root anchor.
TxIds == {"a", "b"}

Ids == TxIds \cup {ROOT_ANCHOR}

\* Ids the chain callers submit, and those they name as parents:
\* "never_seen" is never submitted itself.
ChainIds == {ROOT_ANCHOR, "a", "b", "c"}

ChainParentIds == ChainIds \cup {"never_seen"}

\* tx_fingerprint: blake2s(id, 8 bytes) as uint64.  The table holds the
\* leading 16 bits of the real digests of the modelled ids.
tx_fingerprint(tx_id) ==
    CASE tx_id = "ROOT" -> 6397
      [] tx_id = "a"    -> 14150
      [] tx_id = "b"    -> 54531
      [] tx_id = "c"    -> 28821
      [] tx_id = "never_seen" -> 51017

RootKey == tx_fingerprint(ROOT_ANCHOR)

Keys == {tx_fingerprint(i) : i \in Ids}

ChainKeys == {tx_fingerprint(i) : i \in ChainIds}

ChainParentKeys == {tx_fingerprint(i) : i \in ChainParentIds}

AllKeys == Keys \cup ChainParentKeys

SeqsUpTo(S, n) == UNION {[1..m -> S] : m \in 0..n}

\* Parent lists callers pass to add.
ParentLists(S) == SeqsUpTo(S, MaxParents)

\* The chain callers pass exactly one parent: ledger.add(tid, [prev]).
ChainParentLists(S) == {<<p>> : p \in S}

\* The items callers pass to add_batch: (tx, parents) pairs of a submitted id
\* and no parent or one parent.
BatchItems(S, root) ==
    {<<tx, ps>> : tx \in S \ {root}, ps \in {<<>>} \cup {<<p>> : p \in S}}

Batches(S, root) == SeqsUpTo(BatchItems(S, root), MaxBatch)

\* dict[k] = v
DictSet(d, k, v) == [x \in DOMAIN d \cup {k} |-> IF x = k THEN v ELSE d[x]]

\* dict.pop(k, None)
DictPop(d, k) == [x \in DOMAIN d \ {k} |-> d[x]]

VARIABLES
    variant,        \* "strict" | "rolling": the ledger instance under test
    s_parents,      \* ChronicleStore._parents      tx_id -> parents tuple
    s_child_count,  \* ChronicleStore._child_count  tx_id -> #children
    s_tips,         \* ChronicleStore._tips
    max_nodes,      \* RollingChronicleStore.max_nodes
    digest,         \* key -> the three 32-bit words of blake2s(key, 12 bytes)
    r_parents,      \* RollingChronicleStore._parents
    r_child_count,  \* RollingChronicleStore._child_count
    r_tips,         \* RollingChronicleStore._tips
    r_order,        \* RollingChronicleStore._order (deque, oldest first)
    bloom,          \* RollingChronicleStore._bloom: the set of bit indices set
    r_seen,         \* history: keys ever registered by the rolling ledger
    script,         \* history: progress through add(a,[ROOT]); add(b,[a]); add(c,[b])
    resub,          \* history: one accepted add of the rolling ledger that its
                    \* caller keeps in order to submit it again
    call,           \* the caller: idle, or the add it has called, or that
                    \* add with what it returned
    batch,          \* the caller of add_batch: idle, or the items it has passed,
                    \* or those items with the dict add_batch returned
    th,             \* threads inside RollingChronicleStore.add: per thread its
                    \* position and its local variables
    num_shards,     \* ShardManager.num_shards
    replication_factor, \* ShardManager.replication_factor
    ring,           \* ShardManager.ring         virtual key -> shard id
    sorted_keys,    \* ShardManager.sorted_keys  (ascending)
    load,           \* ShardManager._load        shard id -> EWMA value
    last_seen,      \* ShardManager._last_seen   shard id -> time
    lock,           \* ShardManager._lock: 0 when free, else the thread holding it
    records,        \* history: record_shard_load calls made so far
    memo,           \* history: one earlier call of the static lookup, with
                    \* the shard it returned and the records made before it
    rcall,          \* the router's caller: idle, or its last call with what
                    \* it returned
    rth,            \* threads inside the router: per thread its position, its
                    \* call, its local variables and the loads it has reported
    dim,            \* ProofOfIntelligence.dim
    threshold,      \* ProofOfIntelligence.threshold
    weights_cache,  \* ProofOfIntelligence._weights_cache  validator id -> weights
    cache_max,      \* ProofOfIntelligence._cache_max
    requested,      \* history: the validator ids ever passed to _weights_for
    pcall,          \* the scorer's caller: idle, or its last call with what
                    \* it returned
    pth             \* threads inside _weights_for: per thread its position, its
                    \* validator id and its local variables

strictVars == <<s_parents, s_child_count, s_tips>>
rollingVars == <<max_nodes, digest, r_parents, r_child_count, r_tips, r_order, bloom>>
routerVars == <<num_shards, replication_factor, ring, sorted_keys, load, last_seen, lock>>
fabricVars == <<routerVars, records, memo, rcall, rth>>
ledgerVars == <<strictVars, rollingVars, r_seen, script, resub, call, batch, th>>
consensusVars == <<dim, threshold, weights_cache, cache_max, requested, pcall, pth>>
vars == <<variant, ledgerVars, fabricVars, consensusVars>>

Idle == [pc |-> "idle"]

\* The threads that call add on one ledger instance at the same time.
Threads == {1, 2}

\* What a call of add returned (ok, missing), or that it raised.
Ret(ok, missing, raised) == [ok |-> ok, missing |-> missing, raised |-> raised]

\* A thread outside add.
ThreadIdle ==
    [pc |-> "idle", tx |-> 0, parents |-> <<>>, i |-> 0, missing |-> <<>>,
     prev |-> 0, old |-> 0, ret |-> Ret(FALSE, <<>>, FALSE)]

Called(tx, parents) == [pc |-> "called", tx |-> tx, parents |-> parents]

\* known: tx was resident when add was called; evicted: the ids the call evicted.
Returned(c, known, ok, missing, evicted) ==
    [pc |-> "returned", tx |-> c.tx, parents |-> c.parents, known |-> known,
     ok |-> ok, missing |-> missing, evicted |-> evicted]

\* ------------------------------------------------------- ChronicleStore
\* Faulty get_missing_parents: stops at the first missing parent.
RECURSIVE get_missing_parents_first(_, _)
get_missing_parents_first(known, parents) ==
    IF parents = <<>> THEN <<>>
    ELSE IF Head(parents) # ROOT_ANCHOR /\ Head(parents) \notin known
         THEN <<Head(parents)>>
         ELSE get_missing_parents_first(known, Tail(parents))

\* Faulty get_missing_parents: finds no parent missing.
get_missing_parents_none(known, parents) == <<>>

\* get_missing_parents with self._parents' key set passed as `known`.
RECURSIVE get_missing_parents(_, _)
get_missing_parents(known, parents) ==
    IF parents = <<>> THEN <<>>
    ELSE LET p == Head(parents)
             rest == get_missing_parents(known, Tail(parents))
         IN IF p # ROOT_ANCHOR /\ p \notin known THEN <<p>> \o rest ELSE rest

\* Faulty loop: a parent listed twice by one child is counted once.
RECURSIVE StrictLink_once(_, _, _)
StrictLink_once(cc, tips, pt) ==
    IF pt = <<>> THEN [cc |-> cc, tips |-> tips]
    ELSE LET p == Head(pt)
             prev == IF p \in DOMAIN cc THEN cc[p] ELSE 0
             tips2 == IF prev = 0 /\ p \in tips THEN tips \ {p} ELSE tips
         IN IF \E i \in 2..Len(pt) : pt[i] = p
            THEN StrictLink_once(cc, tips, Tail(pt))
            ELSE StrictLink_once(DictSet(cc, p, prev + 1), tips2, Tail(pt))

\* The loop of add over parent_tuple: bump each parent's child count and
\* drop a parent from the tips when its count leaves 0.
RECURSIVE StrictLink(_, _, _)
StrictLink(cc, tips, pt) ==
    IF pt = <<>> THEN [cc |-> cc, tips |-> tips]
    ELSE LET p == Head(pt)
             prev == IF p \in DOMAIN cc THEN cc[p] ELSE 0
             tips2 == IF prev = 0 /\ p \in tips THEN tips \ {p} ELSE tips
         IN StrictLink(DictSet(cc, p, prev + 1), tips2, Tail(pt))

\* Faulty ChronicleStore.add: no early return for an id already known.
StrictAddResult_relink(parents_, cc, tips, tx_id, parents) ==
    LET parent_tuple == IF parents # <<>> THEN parents ELSE <<ROOT_ANCHOR>>
        missing == get_missing_parents(DOMAIN parents_, parent_tuple)
    IN IF missing # <<>>
       THEN [parents |-> parents_, cc |-> cc, tips |-> tips,
             ok |-> FALSE, missing |-> missing]
       ELSE LET linked == StrictLink(DictSet(cc, tx_id, 0), tips, parent_tuple)
            IN [parents |-> DictSet(parents_, tx_id, parent_tuple),
                cc |-> linked.cc,
                tips |-> linked.tips \cup {tx_id},
                ok |-> TRUE, missing |-> <<>>]

\* Faulty ChronicleStore.add: an empty parent list is registered as it is,
\* without the root anchor standing in for it.
StrictAddResult_no_default(parents_, cc, tips, tx_id, parents) ==
    IF tx_id \in DOMAIN parents_
    THEN [parents |-> parents_, cc |-> cc, tips |-> tips, ok |-> TRUE, missing |-> <<>>]
    ELSE LET missing == get_missing_parents(DOMAIN parents_, parents)
         IN IF missing # <<>>
            THEN [parents |-> parents_, cc |-> cc, tips |-> tips,
                  ok |-> FALSE, missing |-> missing]
            ELSE LET linked == StrictLink(DictSet(cc, tx_id, 0), tips, parents)
                 IN [parents |-> DictSet(parents_, tx_id, parents),
                     cc |-> linked.cc,
                     tips |-> linked.tips \cup {tx_id},
                     ok |-> TRUE, missing |-> <<>>]

\* ChronicleStore.add: the state after the call and the value returned.
StrictAddResult(parents_, cc, tips, tx_id, parents) ==
    IF tx_id \in DOMAIN parents_
    THEN [parents |-> parents_, cc |-> cc, tips |-> tips, ok |-> TRUE, missing |-> <<>>]
    ELSE LET parent_tuple == IF parents # <<>> THEN parents ELSE <<ROOT_ANCHOR>>
             missing == get_missing_parents(DOMAIN parents_, parent_tuple)
         IN IF missing # <<>>
            THEN [parents |-> parents_, cc |-> cc, tips |-> tips,
                  ok |-> FALSE, missing |-> missing]
            ELSE LET linked == StrictLink(DictSet(cc, tx_id, 0), tips, parent_tuple)
                 IN [parents |-> DictSet(parents_, tx_id, parent_tuple),
                     cc |-> linked.cc,
                     tips |-> linked.tips \cup {tx_id},
                     ok |-> TRUE, missing |-> <<>>]

\* A caller calls add(tx_id, parents) on the strict ledger.
StrictCall(tx_id, parents) ==
    /\ variant = "strict"
    /\ call.pc = "idle"
    /\ call' = Called(tx_id, parents)
    /\ UNCHANGED <<variant, strictVars, rollingVars, r_seen, script, resub, batch, th, fabricVars, consensusVars>>

\* ChronicleStore.add runs, as one step, on the arguments it was called with.
ChronicleStore_add ==
    /\ variant = "strict"
    /\ call.pc = "called"
    /\ \E r \in {StrictAddResult(s_parents, s_child_count, s_tips, call.tx, call.parents)} :
          /\ s_parents' = r.parents
          /\ s_child_count' = r.cc
          /\ s_tips' = r.tips
          /\ call' = Returned(call, call.tx \in DOMAIN s_parents, r.ok, r.missing, {})
    /\ UNCHANGED <<variant, rollingVars, r_seen, script, resub, batch, th, fabricVars, consensusVars>>

\* The caller takes the returned (ok, missing).
TakeResult ==
    /\ call.pc = "returned"
    /\ call' = Idle
    /\ UNCHANGED <<variant, strictVars, rollingVars, r_seen, script, resub, batch, th, fabricVars, consensusVars>>

StrictNext ==
    \/ \E tx_id \in Ids : \E parents \in ParentLists(Ids) : StrictCall(tx_id, parents)
    \/ ChronicleStore_add

\* ------------------------------------------------ RollingChronicleStore
\* blake2s(key, 12 bytes) is a fixed function the model cannot compute: it is
\* one of these tables, chosen at construction and never changed.  The first
\* makes "b" a false positive from the start and "never_seen" one once "a"
\* is recorded; the second has no false positive.
DigestTables ==
    { [k \in AllKeys |->
         CASE k = tx_fingerprint("ROOT") -> <<0, 1, 2>>
           [] k = tx_fingerprint("a")    -> <<3, 4, 5>>
           [] k = tx_fingerprint("b")    -> <<0, 1, 1>>
           [] k = tx_fingerprint("c")    -> <<6, 7, 3>>
           [] k = tx_fingerprint("never_seen") -> <<2, 5, 0>>],
      [k \in AllKeys |->
         CASE k = tx_fingerprint("ROOT") -> <<0, 1, 2>>
           [] k = tx_fingerprint("a")    -> <<3, 3, 3>>
           [] k = tx_fingerprint("b")    -> <<0, 4, 5>>
           [] k = tx_fingerprint("c")    -> <<6, 6, 6>>
           [] k = tx_fingerprint("never_seen") -> <<7, 7, 7>>] }

\* _bloom_hashes: each 4-byte sub-range of the digest modulo the bit count.
bloom_hashes(d, key) ==
    {d[key][1] % BloomBits, d[key][2] % BloomBits, d[key][3] % BloomBits}

\* Faulty _bloom_add: assigns the byte instead of or-ing into it.
bloom_add_assign(d, bits, key) == bloom_hashes(d, key)

\* Faulty _bloom_add: records nothing.
bloom_add_none(d, bits, key) == bits

\* _bloom_add: bit h is bit (h & 7) of byte (h >> 3); the model keeps the set
\* of indices h whose bit is set.
bloom_add(d, bits, key) == bits \cup bloom_hashes(d, key)

\* Faulty _bloom_maybe_has: one set bit is enough.
bloom_maybe_has_any(d, bits, key) == \E h \in bloom_hashes(d, key) : h \in bits

\* _bloom_maybe_has
bloom_maybe_has(d, bits, key) == \A h \in bloom_hashes(d, key) : h \in bits

\* The missing-parent loop of RollingChronicleStore.add.
RECURSIVE RollingMissing(_, _, _, _)
RollingMissing(d, bits, known, parents) ==
    IF parents = <<>> THEN <<>>
    ELSE LET p == Head(parents)
             rest == RollingMissing(d, bits, known, Tail(parents))
         IN IF p # RootKey /\ p \notin known /\ ~bloom_maybe_has(d, bits, p)
            THEN <<p>> \o rest ELSE rest

\* Faulty parent loop: never drops a parent from the tips.
RECURSIVE RollingLink_keep_tips(_, _, _)
RollingLink_keep_tips(cc, tips, pt) ==
    IF pt = <<>> THEN [cc |-> cc, tips |-> tips]
    ELSE LET p == Head(pt)
         IN IF p \notin DOMAIN cc
            THEN RollingLink_keep_tips(cc, tips, Tail(pt))
            ELSE RollingLink_keep_tips(DictSet(cc, p, cc[p] + 1), tips, Tail(pt))

\* The loop of RollingChronicleStore.add over pt: a parent with no child-count
\* entry (not resident) is skipped.
RECURSIVE RollingLink(_, _, _)
RollingLink(cc, tips, pt) ==
    IF pt = <<>> THEN [cc |-> cc, tips |-> tips]
    ELSE LET p == Head(pt)
         IN IF p \notin DOMAIN cc
            THEN RollingLink(cc, tips, Tail(pt))
            ELSE RollingLink(DictSet(cc, p, cc[p] + 1),
                             IF cc[p] = 0 THEN tips \ {p} ELSE tips,
                             Tail(pt))

\* Faulty guard: >= for >.
OverCapacity_ge(order, limit) == Len(order) >= limit

\* The guard of _evict_if_needed's loop.
OverCapacity(order, limit) == Len(order) > limit

\* Faulty _evict_if_needed: forgets self._tips.discard(old).
RECURSIVE evict_keep_tip(_, _)
evict_keep_tip(st, limit) ==
    IF ~OverCapacity(st.order, limit) THEN st
    ELSE LET old == Head(st.order)
         IN IF old = RootKey
            THEN [st EXCEPT !.order = Append(Tail(st.order), old)]
            ELSE evict_keep_tip(
                   [parents |-> DictPop(st.parents, old),
                    cc |-> DictPop(st.cc, old),
                    tips |-> st.tips,
                    order |-> Tail(st.order),
                    evicted |-> st.evicted \cup {old}],
                   limit)

\* Faulty _evict_if_needed: `if` for `while`, at most one pop per add.
evict_once(st, limit) ==
    IF ~OverCapacity(st.order, limit) THEN st
    ELSE LET old == Head(st.order)
         IN IF old = RootKey
            THEN [st EXCEPT !.order = Append(Tail(st.order), old)]
            ELSE [parents |-> DictPop(st.parents, old),
                  cc |-> DictPop(st.cc, old),
                  tips |-> st.tips \ {old},
                  order |-> Tail(st.order),
                  evicted |-> st.evicted \cup {old}]

\* Faulty _evict_if_needed: no exemption for the root anchor.
RECURSIVE evict_any(_, _)
evict_any(st, limit) ==
    IF ~OverCapacity(st.order, limit) THEN st
    ELSE LET old == Head(st.order)
         IN evict_any(
              [parents |-> DictPop(st.parents, old),
               cc |-> DictPop(st.cc, old),
               tips |-> st.tips \ {old},
               order |-> Tail(st.order),
               evicted |-> st.evicted \cup {old}],
              limit)

\* Faulty _evict_if_needed: pops the newest end of the queue.
RECURSIVE evict_newest(_, _)
evict_newest(st, limit) ==
    IF ~OverCapacity(st.order, limit) THEN st
    ELSE LET old == st.order[Len(st.order)]
         IN IF old = RootKey
            THEN st
            ELSE evict_newest(
                   [parents |-> DictPop(st.parents, old),
                    cc |-> DictPop(st.cc, old),
                    tips |-> st.tips \ {old},
                    order |-> SubSeq(st.order, 1, Len(st.order) - 1),
                    evicted |-> st.evicted \cup {old}],
                   limit)

\* Faulty _evict_if_needed: forgets self._child_count.pop(old, None).
RECURSIVE evict_keep_count(_, _)
evict_keep_count(st, limit) ==
    IF ~OverCapacity(st.order, limit) THEN st
    ELSE LET old == Head(st.order)
         IN IF old = RootKey
            THEN [st EXCEPT !.order = Append(Tail(st.order), old)]
            ELSE evict_keep_count(
                   [parents |-> DictPop(st.parents, old),
                    cc |-> st.cc,
                    tips |-> st.tips \ {old},
                    order |-> Tail(st.order),
                    evicted |-> st.evicted \cup {old}],
                   limit)

\* _evict_if_needed on a ledger state st = [parents, cc, tips, order, evicted].
RECURSIVE evict_if_needed(_, _)
evict_if_needed(st, limit) ==
    IF ~OverCapacity(st.order, limit) THEN st
    ELSE LET old == Head(st.order)
         IN IF old = RootKey
            THEN [st EXCEPT !.order = Append(Tail(st.order), old)]
            ELSE evict_if_needed(
                   [parents |-> DictPop(st.parents, old),
                    cc |-> DictPop(st.cc, old),
                    tips |-> st.tips \ {old},
                    order |-> Tail(st.order),
                    evicted |-> st.evicted \cup {old}],
                   limit)

\* RollingChronicleStore.add: the state after the call and the value returned.
RollingAddResult(st, d, bits, limit, tx, parents) ==
    IF tx \in DOMAIN st.parents
    THEN [st |-> st, bloom |-> bits, ok |-> TRUE, missing |-> <<>>]
    ELSE LET ps == IF parents = <<>> THEN <<RootKey>> ELSE parents
             missing == RollingMissing(d, bits, DOMAIN st.parents, ps)
         IN IF missing # <<>>
            THEN [st |-> st, bloom |-> bits, ok |-> FALSE, missing |-> missing]
            ELSE LET linked == RollingLink(DictSet(st.cc, tx, 0), st.tips \cup {tx}, ps)
                     st1 == [parents |-> DictSet(st.parents, tx, ps),
                             cc |-> linked.cc,
                             tips |-> linked.tips,
                             order |-> Append(st.order, tx),
                             evicted |-> {}]
                 IN [st |-> evict_if_needed(st1, limit),
                     bloom |-> bloom_add(d, bits, tx),
                     ok |-> TRUE, missing |-> <<>>]

RollingState ==
    [parents |-> r_parents, cc |-> r_child_count, tips |-> r_tips,
     order |-> r_order, evicted |-> {}]

\* The scripted scenario add(a,[ROOT]); add(b,[a]); add(c,[b]) on a fresh
\* ledger: script.oks holds the results of its calls so far, script.on is
\* FALSE once a call departs from it.
ScriptCalls ==
    << <<tx_fingerprint("a"), <<tx_fingerprint("ROOT")>> >>,
       <<tx_fingerprint("b"), <<tx_fingerprint("a")>> >>,
       <<tx_fingerprint("c"), <<tx_fingerprint("b")>> >> >>

ScriptStep(sc, tx, parents, ok) ==
    IF sc.on /\ Len(sc.oks) < Len(ScriptCalls) /\ ScriptCalls[Len(sc.oks) + 1] = <<tx, parents>>
    THEN [on |-> TRUE, oks |-> Append(sc.oks, ok)]
    ELSE [on |-> FALSE, oks |-> <<>>]

\* No add is kept for re-submission (mode "off"), or none yet ("armed").
NoResub(mode) == [mode |-> mode, tx |-> 0, parents |-> <<>>, known |-> FALSE]

\* The accepted add(tx, parents) a caller keeps; known: tx was resident when
\* it was accepted.
Kept(tx, parents, known) ==
    [mode |-> "held", tx |-> tx, parents |-> parents, known |-> known]

\* A caller calls add(tx, parents) on the rolling ledger.  The call is made
\* only while it leaves every child count within MaxChildCount.
RollingCall(tx, parents) ==
    /\ variant = "rolling"
    /\ call.pc = "idle"
    /\ LET r == RollingAddResult(RollingState, digest, bloom, max_nodes, tx, parents)
       IN \A k \in DOMAIN r.st.cc : r.st.cc[k] <= MaxChildCount
    /\ call' = Called(tx, parents)
    /\ UNCHANGED <<variant, strictVars, rollingVars, r_seen, script, resub, batch, th, fabricVars, consensusVars>>

\* RollingChronicleStore.add runs, as one step, on the arguments it was
\* called with.
RollingChronicleStore_add ==
    /\ variant = "rolling"
    /\ call.pc = "called"
    /\ \E r \in {RollingAddResult(RollingState, digest, bloom, max_nodes,
                                   call.tx, call.parents)} :
          /\ r_parents' = r.st.parents
          /\ r_child_count' = r.st.cc
          /\ r_tips' = r.st.tips
          /\ r_order' = r.st.order
          /\ bloom' = r.bloom
          /\ r_seen' = IF r.ok /\ call.tx \notin DOMAIN r_parents
                       THEN r_seen \cup {call.tx} ELSE r_seen
          /\ script' = ScriptStep(script, call.tx, call.parents, r.ok)
          /\ resub' \in {resub} \cup
                         (IF resub.mode = "armed" /\ r.ok
                          THEN {Kept(call.tx, call.parents, call.tx \in DOMAIN r_parents)}
                          ELSE {})
          /\ call' = Returned(call, call.tx \in DOMAIN r_parents, r.ok, r.missing,
                              r.st.evicted)
    /\ UNCHANGED <<variant, strictVars, max_nodes, digest, batch, th, fabricVars, consensusVars>>

RollingNext ==
    \/ \E tx \in Keys : \E parents \in ParentLists(Keys) : RollingCall(tx, parents)
    \/ RollingChronicleStore_add

\* The chain callers: more ids, one parent per add.
ChainNext ==
    \/ \E tx \in ChainKeys : \E parents \in ChainParentLists(ChainParentKeys) :
          RollingCall(tx, parents)
    \/ RollingChronicleStore_add
    \/ TakeResult

\* ---------------------------------------------------------- ShardManager
\* f"shard_{i}"
ShardNames == <<"shard_0", "shard_1", "shard_2", "shard_3">>

ShardId(i) == ShardNames[i + 1]

\* f"{shard_id}:{r}", the name of replica r of shard i.
VNodeNames ==
    << <<"shard_0:0", "shard_0:1", "shard_0:2">>,
       <<"shard_1:0", "shard_1:1", "shard_1:2">>,
       <<"shard_2:0", "shard_2:1", "shard_2:2">>,
       <<"shard_3:0", "shard_3:1", "shard_3:2">> >>

VNodeName(i, r) == VNodeNames[i + 1][r + 1]

\* The shard ids of a router built with num_shards = n.
Shards(n) == {ShardId(i) : i \in 0..(n - 1)}

\* What a lookup returns on an empty ring, and a shard id callers may pass
\* that no router is configured with.
None == "None"

Unconfigured == "shard_9"

\* Keys callers route.  Two of them are names of virtual nodes, so their
\* hash is a virtual key of any ring that holds that node; "tx50" hashes
\* above every virtual key.
RouteKeys == {"tx0", "tx2", "tx50", "shard_0:0", "shard_1:0"}

\* ShardManager._hash: int(sha256(key).hexdigest(), 16).  The table holds the leading 16
\* bits of the real digests of the modelled strings.
hash(key) ==
    CASE key = "shard_0:0"  -> 5255
      [] key = "shard_0:1"  -> 13056
      [] key = "shard_0:2"  -> 12977
      [] key = "shard_1:0"  -> 58378
      [] key = "shard_1:1"  -> 46768
      [] key = "shard_1:2"  -> 14002
      [] key = "shard_2:0"  -> 52931
      [] key = "shard_2:1"  -> 2711
      [] key = "shard_2:2"  -> 19191
      [] key = "shard_3:0"  -> 14908
      [] key = "shard_3:1"  -> 4734
      [] key = "shard_3:2"  -> 29456
      [] key = "tx0"        -> 38349
      [] key = "tx2"        -> 10186
      [] key = "tx50"       -> 60275

\* Faulty search: bisect_left, which stops before the entries equal to x.
RECURSIVE bisect_left(_, _, _, _)
bisect_left(a, x, lo, hi) ==
    IF lo < hi
    THEN LET mid == (lo + hi) \div 2
         IN IF a[mid + 1] < x
            THEN bisect_left(a, x, mid + 1, hi)
            ELSE bisect_left(a, x, lo, mid)
    ELSE lo

\* bisect.bisect_right(a, x): the binary search between lo and hi.
RECURSIVE bisect_right(_, _, _, _)
bisect_right(a, x, lo, hi) ==
    IF lo < hi
    THEN LET mid == (lo + hi) \div 2
         IN IF x < a[mid + 1]
            THEN bisect_right(a, x, lo, mid)
            ELSE bisect_right(a, x, mid + 1, hi)
    ELSE lo

\* bisect.insort(a, x): x inserted at bisect_right(a, x).
insort(a, x) ==
    LET at == bisect_right(a, x, 0, Len(a))
    IN SubSeq(a, 1, at) \o <<x>> \o SubSeq(a, at + 1, Len(a))

\* _initialize_ring from shard i, replica r on: ring[key] = shard_id and
\* insort(sorted_keys, key) for each replica of each shard.
RECURSIVE initialize_ring(_, _, _, _, _)
initialize_ring(n, rf, i, r, built) ==
    IF i >= n THEN built
    ELSE IF r >= rf THEN initialize_ring(n, rf, i + 1, 0, built)
    ELSE LET key == hash(VNodeName(i, r))
         IN initialize_ring(n, rf, i, r + 1,
                            [ring |-> DictSet(built.ring, key, ShardId(i)),
                             sorted_keys |-> insort(built.sorted_keys, key)])

\* The index get_shard_for_transaction looks up: bisect_right, wrapped to 0
\* at the end of the list (0-based).
RingIndex(keys, tx_id) ==
    LET idx == bisect_right(keys, hash(tx_id), 0, Len(keys))
    IN IF idx = Len(keys) THEN 0 ELSE idx

\* Faulty lookup: past the last virtual key there is no wrap to the first.
get_shard_for_transaction_nowrap(rg, keys, tx_id) ==
    IF DOMAIN rg = {} \/ \A i \in 1..Len(keys) : keys[i] <= hash(tx_id) THEN None
    ELSE rg[keys[RingIndex(keys, tx_id) + 1]]

\* get_shard_for_transaction on ring rg with sorted key list keys.
get_shard_for_transaction(rg, keys, tx_id) ==
    IF DOMAIN rg = {} THEN None
    ELSE rg[keys[RingIndex(keys, tx_id) + 1]]

\* alpha = 0.2 = 1 / AlphaDen
AlphaDen == 5

\* An EWMA value is the exact rational n / AlphaDen^e, kept in lowest terms.
RECURSIVE Pow5(_)
Pow5(e) == IF e = 0 THEN 1 ELSE AlphaDen * Pow5(e - 1)

RECURSIVE Lowest(_)
Lowest(v) ==
    IF v.e > 0 /\ v.n % AlphaDen = 0
    THEN Lowest([n |-> v.n \div AlphaDen, e |-> v.e - 1])
    ELSE v

\* _Ewma.__init__: value = 0.0
EwmaZero == [n |-> 0, e |-> 0]

\* a < b on EWMA values.
Less(a, b) == a.n * Pow5(b.e) < b.n * Pow5(a.e)

\* Faulty update: the weights of the old value and of the sample swapped.
EwmaUpdate_swapped(v, x) ==
    Lowest([n |-> v.n + (AlphaDen - 1) * x * Pow5(v.e), e |-> v.e + 1])

\* _Ewma.update: (1 - alpha) * value + alpha * x, that is
\* ((AlphaDen - 1) * value + x) / AlphaDen, for an integer x.
EwmaUpdate(v, x) ==
    Lowest([n |-> (AlphaDen - 1) * v.n + x * Pow5(v.e), e |-> v.e + 1])

\* max(1, int(items))
ClampItems(items) == IF items > 1 THEN items ELSE 1

\* per_item = float(latency_ms) / max(1, int(items)); the latencies callers
\* report here are multiples of their item counts, so the quotient is exact.
PerItem(latency_ms, items) == latency_ms \div ClampItems(items)

\* Faulty read: the load of every shard reads as 0.0.
LoadOf_zero(ld, sid) == EwmaZero

\* self._load.get(sid).value if sid in self._load else 0.0
LoadOf(ld, sid) == IF sid \in DOMAIN ld THEN ld[sid] ELSE EwmaZero

\* Faulty loop: a probed shard with the same load as the best one replaces it.
RECURSIVE ProbeLoop_le(_, _, _, _, _, _, _)
ProbeLoop_le(rg, keys, ld, idx, step, last, best) ==
    IF step > last THEN best
    ELSE LET sid == rg[keys[((idx + step) % Len(keys)) + 1]]
             l == LoadOf(ld, sid)
         IN ProbeLoop_le(rg, keys, ld, idx, step + 1, last,
                         IF ~Less(best.load, l) THEN [shard |-> sid, load |-> l] ELSE best)

\* The loop of get_shard_for_transaction_load_aware from `step` on, with the
\* best shard and load found so far; last == max(1, int(probe)).
RECURSIVE ProbeLoop(_, _, _, _, _, _, _)
ProbeLoop(rg, keys, ld, idx, step, last, best) ==
    IF step > last THEN best
    ELSE LET sid == rg[keys[((idx + step) % Len(keys)) + 1]]
             l == LoadOf(ld, sid)
         IN ProbeLoop(rg, keys, ld, idx, step + 1, last,
                      IF Less(l, best.load) THEN [shard |-> sid, load |-> l] ELSE best)

\* Faulty load-aware lookup: the walk starts at the node after the one that
\* serves the key.
get_shard_for_transaction_load_aware_next(rg, keys, ld, tx_id, probe) ==
    IF DOMAIN rg = {} THEN None
    ELSE LET idx == (RingIndex(keys, tx_id) + 1) % Len(keys)
             best_shard == rg[keys[idx + 1]]
         IN ProbeLoop(rg, keys, ld, idx, 1, IF probe > 1 THEN probe ELSE 1,
                      [shard |-> best_shard, load |-> LoadOf(ld, best_shard)]).shard

\* get_shard_for_transaction_load_aware on ring rg, key list keys, load map ld.
get_shard_for_transaction_load_aware(rg, keys, ld, tx_id, probe) ==
    IF DOMAIN rg = {} THEN None
    ELSE LET idx == RingIndex(keys, tx_id)
             best_shard == rg[keys[idx + 1]]
         IN ProbeLoop(rg, keys, ld, idx, 1, IF probe > 1 THEN probe ELSE 1,
                      [shard |-> best_shard, load |-> LoadOf(ld, best_shard)]).shard

\* Faulty record_shard_load: a shard id without an entry gets one.
record_shard_load_create(ld, ls, t, shard_id, latency_ms, items) ==
    IF shard_id = None THEN [load |-> ld, last_seen |-> ls]
    ELSE LET per_item == PerItem(latency_ms, items)
             old == IF shard_id \in DOMAIN ld THEN ld[shard_id] ELSE EwmaZero
         IN [load |-> DictSet(ld, shard_id, EwmaUpdate(old, per_item)),
             last_seen |-> DictSet(ls, shard_id, t)]

\* record_shard_load at time t: the load map and the last-seen map after it.
record_shard_load(ld, ls, t, shard_id, latency_ms, items) ==
    IF shard_id = None THEN [load |-> ld, last_seen |-> ls]
    ELSE LET per_item == PerItem(latency_ms, items)
         IN IF shard_id \in DOMAIN ld
            THEN [load |-> [ld EXCEPT ![shard_id] = EwmaUpdate(@, per_item)],
                  last_seen |-> [ls EXCEPT ![shard_id] = t]]
            ELSE [load |-> ld, last_seen |-> ls]

\* probe's default value in get_shard_for_transaction_load_aware.
DefaultProbe == 5

\* The transactions callers pass to distribute_batch: dicts with an "id", a
\* "sender" or both (None: the field is absent).
Transactions ==
    {[id |-> "tx0", sender |-> None], [id |-> None, sender |-> "tx50"],
     [id |-> "tx50", sender |-> "tx0"]}

\* tx.get("id") or tx.get("sender")
RoutingKey(tx) == IF tx.id # None THEN tx.id ELSE tx.sender

\* The loop of distribute_batch over the transactions left; out.raised is
\* the KeyError of sharded_batches[shard_id] for a shard_id without a list.
RECURSIVE DistributeLoop(_, _, _, _, _)
DistributeLoop(rg, keys, ld, transactions, out) ==
    IF transactions = <<>> THEN out
    ELSE LET tx == Head(transactions)
             shard_id == get_shard_for_transaction_load_aware(rg, keys, ld,
                                                              RoutingKey(tx), DefaultProbe)
         IN IF shard_id \notin DOMAIN out.batches
            THEN [out EXCEPT !.raised = TRUE]
            ELSE DistributeLoop(rg, keys, ld, Tail(transactions),
                                [out EXCEPT !.batches[shard_id] = Append(@, tx)])

\* distribute_batch on a router with n shards.
distribute_batch(n, rg, keys, ld, transactions) ==
    DistributeLoop(rg, keys, ld, transactions,
                   [raised |-> FALSE, batches |-> [sid \in Shards(n) |-> <<>>]])

NoMemo == [key |-> None, shard |-> None, at |-> 0]

RouterFrame == UNCHANGED <<variant, ledgerVars, consensusVars, num_shards,
                           replication_factor, ring, sorted_keys, lock, rth>>


\* Faulty lookup: the static route follows the load map.
Route_balanced(tx_id, remember) ==
    /\ variant = "router"
    /\ rcall.pc = "idle"
    /\ \E shard \in {get_shard_for_transaction_load_aware(
                         ring, sorted_keys, load, tx_id, DefaultProbe)} :
          /\ rcall' = [pc |-> "returned", op |-> "route", key |-> tx_id, result |-> shard]
          /\ memo' = IF remember
                     THEN [key |-> tx_id, shard |-> shard, at |-> records]
                     ELSE memo
    /\ UNCHANGED <<load, last_seen, records>>
    /\ RouterFrame

\* A caller calls get_shard_for_transaction(tx_id), which returns; with
\* `remember` the call and its result are kept in memo.
Route(tx_id, remember) ==
    /\ variant = "router"
    /\ rcall.pc = "idle"
    /\ \E shard \in {get_shard_for_transaction(ring, sorted_keys, tx_id)} :
          /\ rcall' = [pc |-> "returned", op |-> "route", key |-> tx_id, result |-> shard]
          /\ memo' = IF remember
                     THEN [key |-> tx_id, shard |-> shard, at |-> records]
                     ELSE memo
    /\ UNCHANGED <<load, last_seen, records>>
    /\ RouterFrame

\* A caller calls get_shard_for_transaction_load_aware(tx_id, probe).
LoadAwareRoute(tx_id, probe) ==
    /\ variant = "router"
    /\ rcall.pc = "idle"
    /\ rcall' = [pc |-> "returned", op |-> "load_aware", key |-> tx_id, probe |-> probe,
                 result |-> get_shard_for_transaction_load_aware(
                                ring, sorted_keys, load, tx_id, probe)]
    /\ UNCHANGED <<load, last_seen, records, memo>>
    /\ RouterFrame

\* A caller calls record_shard_load(shard_id, latency_ms, items) while
\* time.time() reads t.
RecordLoad(shard_id, latency_ms, items, t) ==
    /\ variant = "router"
    /\ rcall.pc = "idle"
    /\ records < MaxRecords
    /\ \E r \in {record_shard_load(load, last_seen, t, shard_id, latency_ms, items)} :
          /\ load' = r.load
          /\ last_seen' = r.last_seen
    /\ records' = records + 1
    /\ rcall' = [pc |-> "returned", op |-> "record", shard_id |-> shard_id,
                 latency_ms |-> latency_ms, items |-> items]
    /\ UNCHANGED memo
    /\ RouterFrame

\* A caller calls distribute_batch(transactions).
DistributeBatch(transactions) ==
    /\ variant = "router"
    /\ rcall.pc = "idle"
    /\ rcall' = [pc |-> "returned", op |-> "distribute", transactions |-> transactions,
                 result |-> distribute_batch(num_shards, ring, sorted_keys, load,
                                             transactions)]
    /\ UNCHANGED <<load, last_seen, records, memo>>
    /\ RouterFrame

\* The caller takes what the router returned.
TakeRouted ==
    /\ variant = "router"
    /\ rcall.pc = "returned"
    /\ rcall' = Idle
    /\ UNCHANGED <<load, last_seen, records, memo>>
    /\ RouterFrame

\* What callers pass.  Shard ids reported to record_shard_load: the
\* configured ones, None and one that is not configured.
ReportedShards(n) == Shards(n) \cup {None, Unconfigured}

Latencies == {0, 10}

ItemCounts == {-1, 0, 1, 2}

Probes == 0..MaxProbe

\* The calls made on the router by callers who route the keys `keys` (and
\* keep a call in memo when `remember` allows), probe with `probes`, report
\* loads of the shards `reported` with the given latencies and item counts
\* at the clock readings `readings`, and distribute the lists `txlists`.
RouterCalls(keys, remember, probes, reported, latencies, counts, readings, txlists) ==
    \/ \E tx_id \in keys : \E rem \in remember : Route(tx_id, rem)
    \/ \E tx_id \in keys : \E probe \in probes : LoadAwareRoute(tx_id, probe)
    \/ \E shard_id \in reported : \E latency_ms \in latencies :
          \E items \in counts : \E t \in readings :
             RecordLoad(shard_id, latency_ms, items, t)
    \/ \E transactions \in txlists : DistributeBatch(transactions)
    \/ TakeRouted

\* Callers as in the accuracy report and the gateway: they route and probe
\* any key and report one item for a configured shard.
RouterNext ==
    RouterCalls(RouteKeys, {FALSE}, Probes, Shards(num_shards), Latencies, {1}, {1},
                SeqsUpTo(Transactions, MaxTxs))

\* Callers who report any shard id, item count and time, and route one key.
LoadNext ==
    RouterCalls({"tx0"}, {FALSE}, {DefaultProbe}, ReportedShards(num_shards), Latencies,
                ItemCounts, 1..MaxClock, SeqsUpTo(Transactions, MaxTxs))

\* Callers who repeat static lookups between load reports.
MemoNext ==
    RouterCalls(RouteKeys, BOOLEAN, {DefaultProbe}, Shards(num_shards), {10}, {1}, {1},
                SeqsUpTo(Transactions, MaxTxs))

\* Callers that distribute lists of transactions, some of them twice in a
\* list, between load reports for the configured shards.
DistributeNext ==
    RouterCalls({"tx0"}, {FALSE}, {DefaultProbe}, Shards(num_shards), {10}, {1}, {1},
                SeqsUpTo(Transactions, MaxTxs + 1))

\* ------------------------------------------------ ShardManager, threaded
\* record_shard_load and get_shard_for_transaction_load_aware called by the
\* threads at the same time, one step per access to the lock or to the load
\* map.  A thread is idle, at a place inside its call (pc, with the call's
\* arguments a and its local variables l), or done with what the call
\* returned; made lists the loads it has reported for configured shards.

RouterThreadIdle(made) == [pc |-> "idle", op |-> None, a |-> <<>>, l |-> <<>>, made |-> made]

RouterAt(t, pc) == variant = "locks" /\ rth[t].pc = pc

\* Thread t moves to pc with local variables l.
RouterGoto(t, pc, l) == rth' = [rth EXCEPT ![t] = [@ EXCEPT !.pc = pc, !.l = l]]

LocksFrame == UNCHANGED <<variant, ledgerVars, consensusVars, num_shards,
                          replication_factor, ring, sorted_keys, memo, rcall>>

\* Faulty lock: acquired without waiting for its holder.
LockFree_always == TRUE

\* with self._lock: the lock can be acquired when no thread holds it.
LockFree == lock = 0

\* Thread t calls record_shard_load(shard_id, latency_ms, items): the test
\* for None and per_item, before the lock is taken.
rsl_call(t, shard_id, latency_ms, items) ==
    /\ RouterAt(t, "idle")
    /\ records < MaxRecords
    /\ records' = records + 1
    /\ LET a == [shard_id |-> shard_id, latency_ms |-> latency_ms, items |-> items]
       IN rth' = [rth EXCEPT ![t] =
                     [pc |-> IF shard_id = None THEN "done" ELSE "rsl_lock",
                      op |-> "record",
                      a |-> a,
                      l |-> [per_item |-> PerItem(latency_ms, items)],
                      made |-> IF shard_id \in DOMAIN load
                               THEN Append(@.made, a) ELSE @.made]]
    /\ UNCHANGED <<load, last_seen, lock>>
    /\ LocksFrame

\* with self._lock: (entry)
rsl_lock(t) ==
    /\ RouterAt(t, "rsl_lock")
    /\ LockFree
    /\ lock' = t
    /\ RouterGoto(t, "rsl_get", rth[t].l)
    /\ UNCHANGED <<load, last_seen, records>>
    /\ LocksFrame

\* ewma = self._load.get(shard_id); if ewma is not None:
rsl_get(t) ==
    /\ RouterAt(t, "rsl_get")
    /\ RouterGoto(t, IF rth[t].a.shard_id \in DOMAIN load THEN "rsl_read" ELSE "rsl_unlock",
                  rth[t].l)
    /\ UNCHANGED <<load, last_seen, lock, records>>
    /\ LocksFrame

\* _Ewma.update: the read of self.value
rsl_read(t) ==
    /\ RouterAt(t, "rsl_read")
    /\ RouterGoto(t, "rsl_write",
                  [per_item |-> rth[t].l.per_item, value |-> load[rth[t].a.shard_id]])
    /\ UNCHANGED <<load, last_seen, lock, records>>
    /\ LocksFrame

\* _Ewma.update: the assignment to self.value
rsl_write(t) ==
    /\ RouterAt(t, "rsl_write")
    /\ load' = [load EXCEPT ![rth[t].a.shard_id] = EwmaUpdate(rth[t].l.value, rth[t].l.per_item)]
    /\ RouterGoto(t, "rsl_last_seen", rth[t].l)
    /\ UNCHANGED <<last_seen, lock, records>>
    /\ LocksFrame

\* self._last_seen[shard_id] = time.time(), the clock reading now
rsl_last_seen(t, now) ==
    /\ RouterAt(t, "rsl_last_seen")
    /\ last_seen' = [last_seen EXCEPT ![rth[t].a.shard_id] = now]
    /\ RouterGoto(t, "rsl_unlock", rth[t].l)
    /\ UNCHANGED <<load, lock, records>>
    /\ LocksFrame

\* with self._lock: (exit), and the return
rsl_unlock(t) ==
    /\ RouterAt(t, "rsl_unlock")
    /\ lock' = 0
    /\ RouterGoto(t, "done", [result |-> None])
    /\ UNCHANGED <<load, last_seen, records>>
    /\ LocksFrame

\* Thread t calls get_shard_for_transaction_load_aware(tx_id, probe): the
\* lookup of the static candidate, before the lock is taken.
la_call(t, tx_id, probe) ==
    /\ RouterAt(t, "idle")
    /\ rth' = [rth EXCEPT ![t] =
                  [pc |-> IF DOMAIN ring = {} THEN "done" ELSE "la_lock",
                   op |-> "load_aware",
                   a |-> [tx_id |-> tx_id, probe |-> probe],
                   l |-> IF DOMAIN ring = {} THEN [result |-> None]
                         ELSE LET idx == RingIndex(sorted_keys, tx_id)
                              IN [idx |-> idx, best_shard |-> ring[sorted_keys[idx + 1]]],
                   made |-> @.made]]
    /\ UNCHANGED <<load, last_seen, lock, records>>
    /\ LocksFrame

\* with self._lock: (entry); held keeps the load map as it is at this moment.
la_lock(t) ==
    /\ RouterAt(t, "la_lock")
    /\ LockFree
    /\ lock' = t
    /\ RouterGoto(t, "la_best",
                  [idx |-> rth[t].l.idx, best_shard |-> rth[t].l.best_shard, held |-> load])
    /\ UNCHANGED <<load, last_seen, records>>
    /\ LocksFrame

\* best_load = self._load.get(best_shard).value if ... else 0.0; read lists
\* the shards examined with the loads read for them.
la_best(t) ==
    /\ RouterAt(t, "la_best")
    /\ LET l == rth[t].l
           best_load == LoadOf(load, l.best_shard)
       IN RouterGoto(t, "la_probe",
                     [idx |-> l.idx, best_shard |-> l.best_shard, held |-> l.held,
                      best_load |-> best_load, step |-> 1,
                      read |-> <<[shard |-> l.best_shard, load |-> best_load]>>])
    /\ UNCHANGED <<load, last_seen, lock, records>>
    /\ LocksFrame

\* for step in range(1, max(1, int(probe)) + 1): one turn of the loop, or
\* its end.
la_probe(t) ==
    /\ RouterAt(t, "la_probe")
    /\ LET l == rth[t].l
           sid == ring[sorted_keys[((l.idx + l.step) % Len(sorted_keys)) + 1]]
           ld == LoadOf(load, sid)
           better == Less(ld, l.best_load)
       IN IF l.step > ClampItems(rth[t].a.probe)
          THEN RouterGoto(t, "la_unlock", l)
          ELSE RouterGoto(t, "la_probe",
                          [idx |-> l.idx, held |-> l.held, step |-> l.step + 1,
                           best_shard |-> IF better THEN sid ELSE l.best_shard,
                           best_load |-> IF better THEN ld ELSE l.best_load,
                           read |-> Append(l.read, [shard |-> sid, load |-> ld])])
    /\ UNCHANGED <<load, last_seen, lock, records>>
    /\ LocksFrame

\* with self._lock: (exit), and return best_shard
la_unlock(t) ==
    /\ RouterAt(t, "la_unlock")
    /\ lock' = 0
    /\ RouterGoto(t, "done",
                  [result |-> rth[t].l.best_shard, held |-> rth[t].l.held,
                   read |-> rth[t].l.read])
    /\ UNCHANGED <<load, last_seen, records>>
    /\ LocksFrame

\* The caller on thread t takes what its call returned.
router_return(t) ==
    /\ RouterAt(t, "done")
    /\ rth' = [rth EXCEPT ![t] = RouterThreadIdle(@.made)]
    /\ UNCHANGED <<load, last_seen, lock, records>>
    /\ LocksFrame

\* Threads that report one item with either latency for one of the first
\* two shards, for a shard that is not configured or for None, and probe
\* for the key tx0, as the gateway does per request.
LocksNext ==
    \E t \in Threads :
       \/ \E shard_id \in {ShardId(0), ShardId(1), Unconfigured, None} :
             \E latency_ms \in Latencies : rsl_call(t, shard_id, latency_ms, 1)
       \/ rsl_lock(t)
       \/ rsl_get(t)
       \/ rsl_read(t)
       \/ rsl_write(t)
       \/ rsl_last_seen(t, 1)
       \/ rsl_unlock(t)
       \/ la_call(t, "tx0", MaxProbe - 1)
       \/ la_lock(t)
       \/ la_best(t)
       \/ la_probe(t)
       \/ la_unlock(t)
       \/ router_return(t)

\* -------------------------------------------------- ProofOfIntelligence
\* Strings are lists of characters, so that the payload of a proof is the
\* concatenation the code builds.
ValidatorIds == {<<"v">>, <<"w">>, <<"x">>, <<"v", "|", "t">>}

ProofTxIds == {<<"t">>, <<"t", "|", "t">>}

\* A 32-bit word is kept as its two 16-bit halves.
Half == 65536

Word(hi, lo) == [hi |-> hi, lo |-> lo]

\* a ^ b on 16-bit values
RECURSIVE Xor16(_, _)
Xor16(a, b) ==
    IF a = 0 THEN b
    ELSE IF b = 0 THEN a
    ELSE ((a + b) % 2) + 2 * Xor16(a \div 2, b \div 2)

WordXor(x, y) == Word(Xor16(x.hi, y.hi), Xor16(x.lo, y.lo))

\* _u32(x << n) and x >> n for the three shifts of _xorshift32
Shl13(x) == Word((x.hi % 8) * 8192 + x.lo \div 8, (x.lo % 8) * 8192)
Shr17(x) == Word(0, x.hi \div 2)
Shl5(x) == Word((x.hi % 2048) * 32 + x.lo \div 2048, (x.lo % 2048) * 32)

\* _u32(seed + i)
WordAdd(x, i) == Word((x.hi + (x.lo + i) \div Half) % Half, (x.lo + i) % Half)

\* _xorshift32
xorshift32(seed) ==
    LET a == WordXor(seed, Shl13(seed))
        b == WordXor(a, Shr17(a))
    IN WordXor(b, Shl5(b))

\* _seed_from: the four bytes of blake2s(s, digest_size=4), big endian
seed_from(s) ==
    CASE s = <<"v">> -> Word(5315, 12162)
      [] s = <<"w">> -> Word(55764, 50176)
      [] s = <<"x">> -> Word(23475, 35000)
      [] s = <<"v", "|", "t">> -> Word(28763, 60014)

\* seed % 2001
Mod2001(x) == ((x.hi % 2001) * (Half % 2001) + x.lo) % 2001

\* Faulty weights: the offset of 1000 is left out.
RECURSIVE WeightsLoop_no_offset(_, _, _, _)
WeightsLoop_no_offset(seed, i, d, out) ==
    IF i >= d THEN out
    ELSE LET next == xorshift32(WordAdd(seed, i))
         IN WeightsLoop_no_offset(next, i + 1, d, Append(out, Mod2001(next)))

\* The loop of _weights_for from index i on: out[i] = (seed % 2001) - 1000
\* after seed = _xorshift32(seed + i).
RECURSIVE WeightsLoop(_, _, _, _)
WeightsLoop(seed, i, d, out) ==
    IF i >= d THEN out
    ELSE LET next == xorshift32(WordAdd(seed, i))
         IN WeightsLoop(next, i + 1, d, Append(out, Mod2001(next) - 1000))

\* The weights _weights_for computes on a miss.
ComputeWeights(validator_id, d) == WeightsLoop(seed_from(validator_id), 0, d, <<>>)

\* Faulty cache: a miss at capacity adds the validator and drops nothing.
weights_for_no_clear(cache, cmax, d, validator_id) ==
    IF validator_id \in DOMAIN cache
    THEN [w |-> cache[validator_id], cache |-> cache]
    ELSE LET out == ComputeWeights(validator_id, d)
         IN [w |-> out,
             cache |-> [v \in DOMAIN cache \cup {validator_id} |->
                           IF v = validator_id THEN out ELSE cache[v]]]

\* Faulty cache: a hit returns the weights of whatever validator was cached
\* first.
weights_for_any_hit(cache, cmax, d, validator_id) ==
    IF validator_id \in DOMAIN cache
    THEN [w |-> cache[CHOOSE v \in DOMAIN cache : TRUE], cache |-> cache]
    ELSE LET out == ComputeWeights(validator_id, d)
             kept == IF Cardinality(DOMAIN cache) >= cmax THEN {} ELSE DOMAIN cache
         IN [w |-> out,
             cache |-> [v \in kept \cup {validator_id} |->
                           IF v = validator_id THEN out ELSE cache[v]]]

\* _weights_for: the weights returned and the cache left.
weights_for(cache, cmax, d, validator_id) ==
    IF validator_id \in DOMAIN cache
    THEN [w |-> cache[validator_id], cache |-> cache]
    ELSE LET out == ComputeWeights(validator_id, d)
             kept == IF Cardinality(DOMAIN cache) >= cmax THEN {} ELSE DOMAIN cache
         IN [w |-> out,
             cache |-> [v \in kept \cup {validator_id} |->
                           IF v = validator_id THEN out ELSE cache[v]]]

\* A float is NaN or a whole number t of ticks of 1e-7, a millionth being 10
\* ticks.  The vector items callers pass are multiples of 0.001, which makes
\* every computed score a whole number of millionths, and the other scores
\* used are away from the middle between two millionths or are the binary
\* fraction 1/128: on these the exact arithmetic on ticks and the rendering
\* below agree with the floating-point ones.
Ticks(t) == [nan |-> FALSE, t |-> t]

NaN == [nan |-> TRUE, t |-> 0]

FloatAdd(a, b) == IF a.nan \/ b.nan THEN NaN ELSE Ticks(a.t + b.t)

\* abs(x)
FloatAbs(x) == IF x.nan \/ x.t >= 0 THEN x ELSE Ticks(0 - x.t)

\* a < b, which is false when either is NaN.
FloatLess(a, b) == ~a.nan /\ ~b.nan /\ a.t < b.t

\* float(vector[i]) * float(weights[i]) / 1000.0
Term(v, w) == IF v.nan THEN NaN ELSE Ticks((v.t \div 1000) * w)

\* The loop of score_vector from index i on.
RECURSIVE ScoreLoop(_, _, _, _, _)
ScoreLoop(vector, weights, i, n, acc) ==
    IF i > n THEN acc
    ELSE ScoreLoop(vector, weights, i + 1, n, FloatAdd(acc, Term(vector[i], weights[i])))

\* score_vector, given the weights _weights_for returned.
score_vector(vector, weights, d) ==
    ScoreLoop(vector, weights, 1, IF Len(vector) < d THEN Len(vector) ELSE d, Ticks(0))

\* Faulty rendering: 5 decimals.
Format6_short(x) ==
    IF x.nan THEN [nan |-> TRUE, neg |-> FALSE, micros |-> 0]
    ELSE LET m == IF x.t < 0 THEN 0 - x.t ELSE x.t
         IN [nan |-> FALSE, neg |-> x.t < 0, micros |-> 10 * ((m + 50) \div 100)]

\* f"{score:.6f}": "nan", or the sign and the digits, the value rounded to
\* the nearest millionth and to the even one when it is half way.
Format6(x) ==
    IF x.nan THEN [nan |-> TRUE, neg |-> FALSE, micros |-> 0]
    ELSE LET m == IF x.t < 0 THEN 0 - x.t ELSE x.t
             q == m \div 10
             r == m % 10
         IN [nan |-> FALSE, neg |-> x.t < 0,
             micros |-> IF r > 5 \/ (r = 5 /\ q % 2 = 1) THEN q + 1 ELSE q]

\* Faulty payload: the transaction id is left out.
Payload_no_tx(validator_id, tx_id, score) ==
    [head |-> validator_id \o <<"|">>, score |-> Format6(score)]

\* Faulty payload: the score is written in full, not at 6 decimals.
Payload_exact(validator_id, tx_id, score) ==
    [head |-> validator_id \o <<"|">> \o tx_id,
     score |-> [nan |-> score.nan, neg |-> score.t < 0,
                micros |-> IF score.t < 0 THEN 0 - score.t ELSE score.t]]

\* f"{validator_id}|{tx_id}|{score:.6f}": the text before the last "|", and
\* the rendering of the score after it.
Payload(validator_id, tx_id, score) ==
    [head |-> validator_id \o <<"|">> \o tx_id, score |-> Format6(score)]

\* hashlib.sha256(payload).hexdigest(), taken to be free of collisions.
sha256(payload) == [sha256 |-> payload]

PoIProof(validator_id, tx_id, score, proof) ==
    [validator_id |-> validator_id, tx_id |-> tx_id, score |-> score, proof |-> proof]

\* Faulty proof: the hash is taken with tx_id and validator_id exchanged.
make_proof_swapped(tx_id, vector, validator_id, weights, d) ==
    LET score == score_vector(vector, weights, d)
    IN PoIProof(validator_id, tx_id, score, sha256(Payload(tx_id, validator_id, score)))

\* make_proof, given the weights _weights_for returned.
make_proof(tx_id, vector, validator_id, weights, d) ==
    LET score == score_vector(vector, weights, d)
    IN PoIProof(validator_id, tx_id, score, sha256(Payload(validator_id, tx_id, score)))

\* Faulty verifier: the threshold is tested before the hash.
verify_threshold_first(thr, p) ==
    IF FloatLess(FloatAbs(p.score), thr) THEN <<FALSE, "score_too_low">>
    ELSE IF sha256(Payload(p.validator_id, p.tx_id, p.score)) # p.proof
    THEN <<FALSE, "bad_proof">>
    ELSE <<TRUE, "ok">>

\* Faulty verify: a score equal to the threshold is too low.
verify_at_most(thr, p) ==
    IF sha256(Payload(p.validator_id, p.tx_id, p.score)) # p.proof
    THEN <<FALSE, "bad_proof">>
    ELSE IF FloatLess(FloatAbs(p.score), thr) \/ FloatAbs(p.score) = thr
    THEN <<FALSE, "score_too_low">>
    ELSE <<TRUE, "ok">>

\* verify on a scorer with threshold thr.
verify(thr, p) ==
    IF sha256(Payload(p.validator_id, p.tx_id, p.score)) # p.proof
    THEN <<FALSE, "bad_proof">>
    ELSE IF FloatLess(FloatAbs(p.score), thr) THEN <<FALSE, "score_too_low">>
    ELSE <<TRUE, "ok">>

ScorerFrame == UNCHANGED <<variant, ledgerVars, fabricVars, dim, threshold, cache_max, pth>>

\* What a call of _weights_for found: a hit or a miss, whether the validator
\* had been asked for before, and the size of the cache.
Found(validator_id) ==
    [hit |-> validator_id \in DOMAIN weights_cache,
     again |-> validator_id \in requested,
     size |-> Cardinality(DOMAIN weights_cache)]

\* A caller calls _weights_for(validator_id), which returns.
WeightsFor(validator_id) ==
    /\ variant = "scorer"
    /\ pcall.pc = "idle"
    /\ \E r \in {weights_for(weights_cache, cache_max, dim, validator_id)} :
          /\ weights_cache' = r.cache
          /\ pcall' = [pc |-> "returned", op |-> "weights_for",
                       validator_id |-> validator_id, found |-> Found(validator_id),
                       result |-> r.w]
    /\ requested' = requested \cup {validator_id}
    /\ ScorerFrame

\* A caller calls score_vector(vector, validator_id), which returns.
ScoreVector(vector, validator_id) ==
    /\ variant = "scorer"
    /\ pcall.pc = "idle"
    /\ \E r \in {weights_for(weights_cache, cache_max, dim, validator_id)} :
          /\ weights_cache' = r.cache
          /\ pcall' = [pc |-> "returned", op |-> "score_vector", vector |-> vector,
                       validator_id |-> validator_id, found |-> Found(validator_id),
                       result |-> score_vector(vector, r.w, dim)]
    /\ requested' = requested \cup {validator_id}
    /\ ScorerFrame

\* A caller calls make_proof(tx_id, vector, validator_id), which returns.
MakeProof(tx_id, vector, validator_id) ==
    /\ variant = "scorer"
    /\ pcall.pc = "idle"
    /\ \E r \in {weights_for(weights_cache, cache_max, dim, validator_id)} :
          /\ weights_cache' = r.cache
          /\ pcall' = [pc |-> "returned", op |-> "make_proof", tx_id |-> tx_id,
                       vector |-> vector, validator_id |-> validator_id,
                       found |-> Found(validator_id),
                       result |-> make_proof(tx_id, vector, validator_id, r.w, dim)]
    /\ requested' = requested \cup {validator_id}
    /\ ScorerFrame

\* The caller that holds the proof make_proof returned calls verify(p), with
\* that proof or with one built from it.
Verify(p) ==
    /\ variant = "scorer"
    /\ pcall.pc = "returned"
    /\ pcall.op = "make_proof"
    /\ pcall' = [pc |-> "returned", op |-> "verify", made |-> pcall.result, p |-> p,
                 result |-> verify(threshold, p)]
    /\ UNCHANGED <<weights_cache, requested>>
    /\ ScorerFrame

\* The caller takes what the scorer returned.
TakeScored ==
    /\ variant = "scorer"
    /\ pcall.pc = "returned"
    /\ pcall' = Idle
    /\ UNCHANGED <<weights_cache, requested>>
    /\ ScorerFrame

\* What callers pass.  Vector items: 0.0, 0.001, 1.0 and NaN.
VectorItems == {Ticks(0), Ticks(10000), Ticks(10000000), NaN}

Vectors == SeqsUpTo(VectorItems, MaxDim + 1)

\* The scores a holder of a proof with score s puts in its place: s + 1.0 as
\* the accuracy report does, s moved by 1e-7 either way, -s, 0.0, NaN, and
\* 1/128 with its neighbour 0.007812, which are half way between
\* millionths and next to it.
ScoreChanges(s) ==
    {FloatAdd(s, Ticks(10000000)), FloatAdd(s, Ticks(1)), FloatAdd(s, Ticks(0 - 1)),
     Ticks(0 - s.t), Ticks(0), NaN, Ticks(78125), Ticks(78120)} \ {s}

\* The proofs that differ from proof m in one field.
Tampered(m) ==
    {[m EXCEPT !.score = s] : s \in ScoreChanges(m.score)}
    \cup {[m EXCEPT !.tx_id = t] : t \in ProofTxIds \ {m.tx_id}}
    \cup {[m EXCEPT !.validator_id = v] : v \in ValidatorIds \ {m.validator_id}}
    \cup {[m EXCEPT !.proof = sha256(Payload(m.validator_id, m.tx_id, s))] :
             s \in {s \in ScoreChanges(m.score) : Format6(s) # Format6(m.score)}}

\* The proofs a holder of m makes itself for another score: the hash is
\* not keyed.
Forged(m) ==
    {PoIProof(m.validator_id, m.tx_id, s, sha256(Payload(m.validator_id, m.tx_id, s))) :
        s \in ScoreChanges(m.score)}

\* The proofs a holder of m presents for another (validator, transaction)
\* pair, with the score and the hash of m.
Rebound(m) ==
    {[m EXCEPT !.validator_id = v, !.tx_id = t] :
        v \in ValidatorIds, t \in ProofTxIds \cup {<<"u">>}}
    \ {m}

\* Callers that prove and verify, as the gateway and the accuracy report do.
ProofNext ==
    \/ \E tx_id \in ProofTxIds : \E vector \in Vectors :
          \E validator_id \in {<<"v">>, <<"v", "|", "t">>} :
             MakeProof(tx_id, vector, validator_id)
    \/ /\ pcall.pc = "returned"
       /\ pcall.op = "make_proof"
       /\ \E p \in {pcall.result} \cup Tampered(pcall.result) \cup Forged(pcall.result)
                     \cup Rebound(pcall.result) :
             Verify(p)
    \/ TakeScored

\* Callers that ask for weights and scores of any validator.
WeightsNext ==
    \/ \E validator_id \in ValidatorIds : WeightsFor(validator_id)
    \/ \E validator_id \in ValidatorIds :
          \E vector \in SeqsUpTo({Ticks(10000000)}, MaxDim + 1) :
             ScoreVector(vector, validator_id)
    \/ TakeScored

\* ProofOfIntelligence.__init__(dim = d, threshold = thr), with _cache_max
\* scaled to cmax.
ScorerInit(d, thr, cmax) ==
    /\ dim = d
    /\ threshold = thr
    /\ weights_cache = <<>>
    /\ cache_max = cmax

\* The scorer while another component is under test: just built.
ConsensusQuiet ==
    /\ ScorerInit(1, Ticks(0), CacheMax)
    /\ requested = {}
    /\ pcall = Idle
    /\ pth = [t \in Threads |-> Idle]

\* ------------------------------------------- _weights_for on threads
\* _weights_for takes no lock: between two of its operations on the cache
\* another thread may run.  Each step below is one operation on the
\* dictionary, which the interpreter performs whole.
CacheThreadIdle == [pc |-> "idle", validator_id |-> <<>>, out |-> <<>>]

CacheAt(t, pc) == variant = "cache" /\ pth[t].pc = pc

CacheFrame == UNCHANGED <<variant, ledgerVars, fabricVars, dim, threshold, cache_max,
                          requested, pcall>>

\* Thread t calls _weights_for(validator_id), directly or through
\* score_vector or make_proof.
wf_call(t, validator_id) ==
    /\ CacheAt(t, "idle")
    /\ pth' = [pth EXCEPT ![t] = [pc |-> "wf_get", validator_id |-> validator_id,
                                  out |-> <<>>]]
    /\ UNCHANGED weights_cache
    /\ CacheFrame

\* cached = self._weights_cache.get(validator_id); if cached is not None:
\* return cached; else the weights are computed into out.
wf_get(t) ==
    /\ CacheAt(t, "wf_get")
    /\ pth' = [pth EXCEPT ![t] =
                  IF pth[t].validator_id \in DOMAIN weights_cache
                  THEN [pc |-> "done", validator_id |-> pth[t].validator_id,
                        out |-> weights_cache[pth[t].validator_id]]
                  ELSE [pc |-> "wf_len", validator_id |-> pth[t].validator_id,
                        out |-> ComputeWeights(pth[t].validator_id, dim)]]
    /\ UNCHANGED weights_cache
    /\ CacheFrame

\* if len(self._weights_cache) >= self._cache_max:
wf_len(t) ==
    /\ CacheAt(t, "wf_len")
    /\ pth' = [pth EXCEPT ![t] =
                  [@ EXCEPT !.pc = IF Cardinality(DOMAIN weights_cache) >= cache_max
                                   THEN "wf_clear" ELSE "wf_insert"]]
    /\ UNCHANGED weights_cache
    /\ CacheFrame

\* self._weights_cache.clear()
wf_clear(t) ==
    /\ CacheAt(t, "wf_clear")
    /\ weights_cache' = <<>>
    /\ pth' = [pth EXCEPT ![t] = [@ EXCEPT !.pc = "wf_insert"]]
    /\ CacheFrame

\* self._weights_cache[validator_id] = out; return out
wf_insert(t) ==
    /\ CacheAt(t, "wf_insert")
    /\ weights_cache' = [v \in DOMAIN weights_cache \cup {pth[t].validator_id} |->
                            IF v = pth[t].validator_id THEN pth[t].out
                            ELSE weights_cache[v]]
    /\ pth' = [pth EXCEPT ![t] = [@ EXCEPT !.pc = "done"]]
    /\ CacheFrame

\* The caller on thread t takes the weights.
wf_return(t) ==
    /\ CacheAt(t, "done")
    /\ pth' = [pth EXCEPT ![t] = CacheThreadIdle]
    /\ UNCHANGED weights_cache
    /\ CacheFrame

\* Threads that ask for the weights of any validator.
CacheNext ==
    \E t \in Threads :
       \/ \E validator_id \in ValidatorIds : wf_call(t, validator_id)
       \/ wf_get(t)
       \/ wf_len(t)
       \/ wf_clear(t)
       \/ wf_insert(t)
       \/ wf_return(t)

\* ------------------------------------------------------------- add_batch
BatchCalled(items) == [pc |-> "called", items |-> items]

BatchReturned(items, out) == [pc |-> "returned", items |-> items, out |-> out]

NoResults == [accepted |-> <<>>, rejected |-> <<>>]

\* The body of add_batch's loop after its call of add: accepted.append(tx)
\* or rejected[tx] = missing.
BatchNote(acc, tx, ok, missing) ==
    IF ok THEN [acc EXCEPT !.accepted = Append(@, tx)]
    ELSE [acc EXCEPT !.rejected = DictSet(@, tx, missing)]

\* Faulty ChronicleStore.add_batch: stops at the first rejected item.
RECURSIVE StrictBatchResult_stop(_, _, _)
StrictBatchResult_stop(st, items, acc) ==
    IF items = <<>>
    THEN [st |-> st,
          out |-> [accepted |-> acc.accepted, rejected |-> acc.rejected,
                   tips |-> st.tips, size |-> Cardinality(DOMAIN st.parents)]]
    ELSE LET tx_id == Head(items)[1]
             r == StrictAddResult(st.parents, st.cc, st.tips, tx_id, Head(items)[2])
         IN StrictBatchResult_stop([parents |-> r.parents, cc |-> r.cc, tips |-> r.tips],
                                   IF r.ok THEN Tail(items) ELSE <<>>,
                                   BatchNote(acc, tx_id, r.ok, r.missing))

\* ChronicleStore.add_batch on a ledger state st = [parents, cc, tips]: the
\* state after the call and the dict returned.
RECURSIVE StrictBatchResult(_, _, _)
StrictBatchResult(st, items, acc) ==
    IF items = <<>>
    THEN [st |-> st,
          out |-> [accepted |-> acc.accepted, rejected |-> acc.rejected,
                   tips |-> st.tips, size |-> Cardinality(DOMAIN st.parents)]]
    ELSE LET tx_id == Head(items)[1]
             r == StrictAddResult(st.parents, st.cc, st.tips, tx_id, Head(items)[2])
         IN StrictBatchResult([parents |-> r.parents, cc |-> r.cc, tips |-> r.tips],
                              Tail(items),
                              BatchNote(acc, tx_id, r.ok, r.missing))

\* RollingChronicleStore.add_batch on a ledger state st = [parents, cc, tips,
\* order, evicted] with bloom bits `bits`.
RECURSIVE RollingBatchResult(_, _, _, _, _, _)
RollingBatchResult(st, d, bits, limit, items, acc) ==
    IF items = <<>>
    THEN [st |-> st, bloom |-> bits,
          out |-> [accepted |-> acc.accepted, rejected |-> acc.rejected,
                   tips |-> st.tips, size |-> Cardinality(DOMAIN st.parents),
                   max_nodes |-> limit]]
    ELSE LET tx == Head(items)[1]
             r == RollingAddResult(st, d, bits, limit, tx, Head(items)[2])
         IN RollingBatchResult(r.st, d, r.bloom, limit, Tail(items),
                               BatchNote(acc, tx, r.ok, r.missing))

StrictState == [parents |-> s_parents, cc |-> s_child_count, tips |-> s_tips]

\* A caller calls add_batch(items) on the strict ledger.
StrictBatchCall(items) ==
    /\ variant = "strict"
    /\ batch.pc = "idle"
    /\ batch' = BatchCalled(items)
    /\ UNCHANGED <<variant, strictVars, rollingVars, r_seen, script, resub, call, th, fabricVars, consensusVars>>

\* ChronicleStore.add_batch runs, as one step, on the items it was called with.
ChronicleStore_add_batch ==
    /\ variant = "strict"
    /\ batch.pc = "called"
    /\ \E r \in {StrictBatchResult(StrictState, batch.items, NoResults)} :
          /\ s_parents' = r.st.parents
          /\ s_child_count' = r.st.cc
          /\ s_tips' = r.st.tips
          /\ batch' = BatchReturned(batch.items, r.out)
    /\ UNCHANGED <<variant, rollingVars, r_seen, script, resub, call, th, fabricVars, consensusVars>>

\* A caller calls add_batch(items) on the rolling ledger.  The call is made
\* only while it leaves every child count within MaxChildCount.
RollingBatchCall(items) ==
    /\ variant = "rolling"
    /\ batch.pc = "idle"
    /\ LET r == RollingBatchResult(RollingState, digest, bloom, max_nodes, items, NoResults)
       IN \A k \in DOMAIN r.st.cc : r.st.cc[k] <= MaxChildCount
    /\ batch' = BatchCalled(items)
    /\ UNCHANGED <<variant, strictVars, rollingVars, r_seen, script, resub, call, th, fabricVars, consensusVars>>

\* RollingChronicleStore.add_batch runs, as one step, on the items it was
\* called with.
RollingChronicleStore_add_batch ==
    /\ variant = "rolling"
    /\ batch.pc = "called"
    /\ \E r \in {RollingBatchResult(RollingState, digest, bloom, max_nodes,
                                     batch.items, NoResults)} :
          /\ r_parents' = r.st.parents
          /\ r_child_count' = r.st.cc
          /\ r_tips' = r.st.tips
          /\ r_order' = r.st.order
          /\ bloom' = r.bloom
          /\ r_seen' = r_seen \cup {r.out.accepted[i] : i \in 1..Len(r.out.accepted)}
          /\ batch' = BatchReturned(batch.items, r.out)
    /\ script' = [on |-> FALSE, oks |-> <<>>]
    /\ UNCHANGED <<variant, strictVars, max_nodes, digest, resub, call, th, fabricVars, consensusVars>>

\* The caller takes the returned dict.
TakeBatchResult ==
    /\ batch.pc = "returned"
    /\ batch' = Idle
    /\ UNCHANGED <<variant, strictVars, rollingVars, r_seen, script, resub, call, th, fabricVars, consensusVars>>

BatchNext ==
    \/ \E items \in Batches(Ids, ROOT_ANCHOR) : StrictBatchCall(items)
    \/ ChronicleStore_add_batch
    \/ \E items \in Batches(Keys, RootKey) : RollingBatchCall(items)
    \/ RollingChronicleStore_add_batch
    \/ TakeBatchResult

\* ------------------------------------ RollingChronicleStore.add, threaded
\* add takes no lock: threads that call it on one instance interleave between
\* its statements.  Each action below is one statement (or one loop test
\* with the reads it makes) run by thread t.
AtPc(t, pc) == variant = "threads" /\ th[t].pc = pc

ThreadFrame ==
    UNCHANGED <<variant, strictVars, max_nodes, digest, script, resub, call, batch, fabricVars, consensusVars>>

\* return ok, missing
ThreadReturn(t, ok, missing) ==
    [th[t] EXCEPT !.pc = "done", !.ret = Ret(ok, missing, FALSE)]

\* Thread t calls add(tx, parents).
add_call(t, tx, parents) ==
    /\ AtPc(t, "idle")
    /\ th' = [th EXCEPT ![t] = [@ EXCEPT !.pc = "check", !.tx = tx, !.parents = parents]]
    /\ UNCHANGED <<r_parents, r_child_count, r_tips, r_order, bloom, r_seen>>
    /\ ThreadFrame

\* if tx in self._parents: return True, []; if not parents: parents = [root]
add_check(t) ==
    /\ AtPc(t, "check")
    /\ th' = [th EXCEPT ![t] =
                IF th[t].tx \in DOMAIN r_parents
                THEN ThreadReturn(t, TRUE, <<>>)
                ELSE [@ EXCEPT !.pc = "missing", !.i = 1,
                               !.parents = IF @ = <<>> THEN <<RootKey>> ELSE @]]
    /\ UNCHANGED <<r_parents, r_child_count, r_tips, r_order, bloom, r_seen>>
    /\ ThreadFrame

\* One turn of the loop `for p in parents` that collects missing, and after
\* its last turn `if missing: return False, missing`.
add_missing(t) ==
    /\ AtPc(t, "missing")
    /\ LET l == th[t]
       IN th' = [th EXCEPT ![t] =
                   IF l.i <= Len(l.parents)
                   THEN LET p == l.parents[l.i]
                        IN [l EXCEPT !.i = l.i + 1,
                                     !.missing =
                                        IF /\ p # RootKey
                                           /\ p \notin DOMAIN r_parents
                                           /\ ~bloom_maybe_has(digest, bloom, p)
                                        THEN Append(@, p) ELSE @]
                   ELSE IF l.missing # <<>>
                        THEN ThreadReturn(t, FALSE, l.missing)
                        ELSE [l EXCEPT !.pc = "reg_parents"]]
    /\ UNCHANGED <<r_parents, r_child_count, r_tips, r_order, bloom, r_seen>>
    /\ ThreadFrame

\* self._parents[tx] = pt
add_reg_parents(t) ==
    /\ AtPc(t, "reg_parents")
    /\ r_parents' = DictSet(r_parents, th[t].tx, th[t].parents)
    /\ r_seen' = r_seen \cup {th[t].tx}
    /\ th' = [th EXCEPT ![t].pc = "reg_count"]
    /\ UNCHANGED <<r_child_count, r_tips, r_order, bloom>>
    /\ ThreadFrame

\* self._child_count[tx] = 0
add_reg_count(t) ==
    /\ AtPc(t, "reg_count")
    /\ r_child_count' = DictSet(r_child_count, th[t].tx, 0)
    /\ th' = [th EXCEPT ![t].pc = "reg_tip"]
    /\ UNCHANGED <<r_parents, r_tips, r_order, bloom, r_seen>>
    /\ ThreadFrame

\* self._tips.add(tx)
add_reg_tip(t) ==
    /\ AtPc(t, "reg_tip")
    /\ r_tips' = r_tips \cup {th[t].tx}
    /\ th' = [th EXCEPT ![t].pc = "reg_order"]
    /\ UNCHANGED <<r_parents, r_child_count, r_order, bloom, r_seen>>
    /\ ThreadFrame

\* self._order.append(tx)
add_reg_order(t) ==
    /\ AtPc(t, "reg_order")
    /\ r_order' = Append(r_order, th[t].tx)
    /\ th' = [th EXCEPT ![t].pc = "reg_bloom"]
    /\ UNCHANGED <<r_parents, r_child_count, r_tips, bloom, r_seen>>
    /\ ThreadFrame

\* self._bloom_add(tx)
add_reg_bloom(t) ==
    /\ AtPc(t, "reg_bloom")
    /\ bloom' = bloom_add(digest, bloom, th[t].tx)
    /\ th' = [th EXCEPT ![t] = [@ EXCEPT !.pc = "link", !.i = 1]]
    /\ UNCHANGED <<r_parents, r_child_count, r_tips, r_order, r_seen>>
    /\ ThreadFrame

\* for p in pt: prev = self._child_count.get(p); if prev is None: continue
add_link(t) ==
    /\ AtPc(t, "link")
    /\ LET l == th[t]
       IN th' = [th EXCEPT ![t] =
                   IF l.i > Len(l.parents) THEN [l EXCEPT !.pc = "evict"]
                   ELSE IF l.parents[l.i] \notin DOMAIN r_child_count
                        THEN [l EXCEPT !.i = l.i + 1]
                        ELSE [l EXCEPT !.pc = "link_write",
                                       !.prev = r_child_count[l.parents[l.i]]]]
    /\ UNCHANGED <<r_parents, r_child_count, r_tips, r_order, bloom, r_seen>>
    /\ ThreadFrame

\* self._child_count[p] = prev + 1; if prev == 0: ...
add_link_write(t) ==
    /\ AtPc(t, "link_write")
    /\ LET l == th[t]
       IN /\ r_child_count' = DictSet(r_child_count, l.parents[l.i], l.prev + 1)
          /\ th' = [th EXCEPT ![t] =
                      IF l.prev = 0 THEN [l EXCEPT !.pc = "link_tip"]
                      ELSE [l EXCEPT !.pc = "link", !.i = l.i + 1]]
    /\ UNCHANGED <<r_parents, r_tips, r_order, bloom, r_seen>>
    /\ ThreadFrame

\* self._tips.discard(p)
add_link_tip(t) ==
    /\ AtPc(t, "link_tip")
    /\ r_tips' = r_tips \ {th[t].parents[th[t].i]}
    /\ th' = [th EXCEPT ![t] = [@ EXCEPT !.pc = "link", !.i = @ + 1]]
    /\ UNCHANGED <<r_parents, r_child_count, r_order, bloom, r_seen>>
    /\ ThreadFrame

\* _evict_if_needed: while len(self._order) > self.max_nodes; when the test
\* fails add returns True, [].
add_evict(t) ==
    /\ AtPc(t, "evict")
    /\ th' = [th EXCEPT ![t] =
                IF OverCapacity(r_order, max_nodes) THEN [@ EXCEPT !.pc = "evict_pop"]
                ELSE ThreadReturn(t, TRUE, <<>>)]
    /\ UNCHANGED <<r_parents, r_child_count, r_tips, r_order, bloom, r_seen>>
    /\ ThreadFrame

\* old = self._order.popleft(); popleft of an empty deque raises IndexError,
\* which ends the call.
add_evict_pop(t) ==
    /\ AtPc(t, "evict_pop")
    /\ IF r_order = <<>>
       THEN /\ th' = [th EXCEPT ![t] = [@ EXCEPT !.pc = "done", !.ret = Ret(FALSE, <<>>, TRUE)]]
            /\ UNCHANGED r_order
       ELSE /\ th' = [th EXCEPT ![t] = [@ EXCEPT !.pc = "evict_root", !.old = Head(r_order)]]
            /\ r_order' = Tail(r_order)
    /\ UNCHANGED <<r_parents, r_child_count, r_tips, bloom, r_seen>>
    /\ ThreadFrame

\* if old == root: self._order.append(old); return
add_evict_root(t) ==
    /\ AtPc(t, "evict_root")
    /\ IF th[t].old = RootKey
       THEN /\ r_order' = Append(r_order, RootKey)
            /\ th' = [th EXCEPT ![t] = ThreadReturn(t, TRUE, <<>>)]
       ELSE /\ th' = [th EXCEPT ![t].pc = "evict_parents"]
            /\ UNCHANGED r_order
    /\ UNCHANGED <<r_parents, r_child_count, r_tips, bloom, r_seen>>
    /\ ThreadFrame

\* self._parents.pop(old, None)
add_evict_parents(t) ==
    /\ AtPc(t, "evict_parents")
    /\ r_parents' = DictPop(r_parents, th[t].old)
    /\ th' = [th EXCEPT ![t].pc = "evict_count"]
    /\ UNCHANGED <<r_child_count, r_tips, r_order, bloom, r_seen>>
    /\ ThreadFrame

\* self._child_count.pop(old, None)
add_evict_count(t) ==
    /\ AtPc(t, "evict_count")
    /\ r_child_count' = DictPop(r_child_count, th[t].old)
    /\ th' = [th EXCEPT ![t].pc = "evict_tip"]
    /\ UNCHANGED <<r_parents, r_tips, r_order, bloom, r_seen>>
    /\ ThreadFrame

\* self._tips.discard(old)
add_evict_tip(t) ==
    /\ AtPc(t, "evict_tip")
    /\ r_tips' = r_tips \ {th[t].old}
    /\ th' = [th EXCEPT ![t].pc = "evict"]
    /\ UNCHANGED <<r_parents, r_child_count, r_order, bloom, r_seen>>
    /\ ThreadFrame

\* The calls the threads make: a submitted id with no parent or one parent.
ThreadNext ==
    \E t \in Threads :
        \/ \E item \in BatchItems(Keys, RootKey) : add_call(t, item[1], item[2])
        \/ add_check(t)
        \/ add_missing(t)
        \/ add_reg_parents(t)
        \/ add_reg_count(t)
        \/ add_reg_tip(t)
        \/ add_reg_order(t)
        \/ add_reg_bloom(t)
        \/ add_link(t)
        \/ add_link_write(t)
        \/ add_link_tip(t)
        \/ add_evict(t)
        \/ add_evict_pop(t)
        \/ add_evict_root(t)
        \/ add_evict_parents(t)
        \/ add_evict_count(t)
        \/ add_evict_tip(t)

\* ------------------------------------------------------- specification
\* ShardManager.__init__(num_shards = n, replication_factor = rf)
RouterInit(n, rf) ==
    /\ num_shards = n
    /\ replication_factor = rf
    /\ \E built \in {initialize_ring(n, rf, 0, 0, [ring |-> <<>>, sorted_keys |-> <<>>])} :
          /\ ring = built.ring
          /\ sorted_keys = built.sorted_keys
    /\ load = [sid \in Shards(n) |-> EwmaZero]
    /\ last_seen = [sid \in Shards(n) |-> 0]
    /\ lock = 0

\* The router while the ledger is under test: just built, never called.
FabricQuiet ==
    /\ RouterInit(1, 1)
    /\ records = 0
    /\ memo = NoMemo
    /\ rcall = Idle
    /\ rth = [t \in Threads |-> RouterThreadIdle(<<>>)]

\* ChronicleStore.__init__
StrictInit ==
    /\ s_parents = [x \in {ROOT_ANCHOR} |-> <<>>]
    /\ s_child_count = [x \in {ROOT_ANCHOR} |-> 0]
    /\ s_tips = {ROOT_ANCHOR}

\* RollingChronicleStore.__init__
RollingFresh ==
    /\ r_parents = [x \in {RootKey} |-> <<>>]
    /\ r_child_count = [x \in {RootKey} |-> 0]
    /\ r_tips = {RootKey}
    /\ r_order = <<RootKey>>
    /\ bloom = bloom_add(digest, {}, RootKey)

RollingInit ==
    /\ max_nodes \in 0..MaxNodesCap
    /\ digest \in DigestTables
    /\ RollingFresh

Init ==
    /\ variant \in {"strict", "rolling"}
    /\ StrictInit
    /\ RollingInit
    /\ r_seen = {RootKey}
    /\ script = [on |-> TRUE, oks |-> <<>>]
    /\ resub = NoResub("off")
    /\ call = Idle
    /\ batch = Idle
    /\ th = [t \in Threads |-> ThreadIdle]
    /\ FabricQuiet
    /\ ConsensusQuiet

Next == StrictNext \/ RollingNext \/ TakeResult

Spec == Init /\ [][Next]_vars

\* A rolling ledger driven by the chain callers.
ChainInit ==
    /\ variant = "rolling"
    /\ StrictInit
    /\ max_nodes \in 0..(MaxNodesCap + 1)
    /\ digest \in DigestTables
    /\ RollingFresh
    /\ r_seen = {RootKey}
    /\ script = [on |-> TRUE, oks |-> <<>>]
    /\ resub = NoResub("off")
    /\ call = Idle
    /\ batch = Idle
    /\ th = [t \in Threads |-> ThreadIdle]
    /\ FabricQuiet
    /\ ConsensusQuiet

SpecChain == ChainInit /\ [][ChainNext]_vars

\* A rolling ledger whose callers keep one accepted add and submit it again.
ResubmitInit ==
    /\ variant = "rolling"
    /\ StrictInit
    /\ max_nodes \in 0..MaxNodesCap
    /\ digest \in DigestTables
    /\ RollingFresh
    /\ r_seen = {RootKey}
    /\ script = [on |-> FALSE, oks |-> <<>>]
    /\ resub = NoResub("armed")
    /\ call = Idle
    /\ batch = Idle
    /\ th = [t \in Threads |-> ThreadIdle]
    /\ FabricQuiet
    /\ ConsensusQuiet

SpecResubmit == ResubmitInit /\ [][ChainNext]_vars

\* Either ledger driven by callers of add_batch.
SpecBatch == Init /\ [][BatchNext]_vars

\* A fresh rolling ledger on which each thread calls add once.
ThreadsInit ==
    /\ variant = "threads"
    /\ StrictInit
    /\ RollingInit
    /\ r_seen = {RootKey}
    /\ script = [on |-> FALSE, oks |-> <<>>]
    /\ resub = NoResub("off")
    /\ call = Idle
    /\ batch = Idle
    /\ th = [t \in Threads |-> ThreadIdle]
    /\ FabricQuiet
    /\ ConsensusQuiet

SpecThreads == ThreadsInit /\ [][ThreadNext]_vars

\* The ledgers while the router is under test: just built, never called.
LedgerQuiet ==
    /\ StrictInit
    /\ max_nodes = MaxNodesCap
    /\ digest = CHOOSE d \in DigestTables : TRUE
    /\ RollingFresh
    /\ r_seen = {RootKey}
    /\ script = [on |-> FALSE, oks |-> <<>>]
    /\ resub = NoResub("off")
    /\ call = Idle
    /\ batch = Idle
    /\ th = [t \in Threads |-> ThreadIdle]

\* A router built with any configuration, 0 included, and its callers.
RouterSpecInit ==
    /\ variant = "router"
    /\ LedgerQuiet
    /\ ConsensusQuiet
    /\ \E n \in 0..MaxShards : \E rf \in 0..MaxReplicas : RouterInit(n, rf)
    /\ records = 0
    /\ memo = NoMemo
    /\ rcall = Idle
    /\ rth = [t \in Threads |-> RouterThreadIdle(<<>>)]

SpecRouter == RouterSpecInit /\ [][RouterNext]_vars

\* A router with any number of shards and its load-reporting callers.
LoadSpecInit ==
    /\ variant = "router"
    /\ LedgerQuiet
    /\ ConsensusQuiet
    /\ \E n \in 0..MaxShards : RouterInit(n, MaxReplicas)
    /\ records = 0
    /\ memo = NoMemo
    /\ rcall = Idle
    /\ rth = [t \in Threads |-> RouterThreadIdle(<<>>)]

SpecLoad == LoadSpecInit /\ [][LoadNext]_vars

SpecMemo == RouterSpecInit /\ [][MemoNext]_vars

\* A router with at least one shard and any replication, 0 included.
DistributeInit ==
    /\ variant = "router"
    /\ LedgerQuiet
    /\ ConsensusQuiet
    /\ \E n \in 1..MaxShards : \E rf \in 0..MaxReplicas : RouterInit(n, rf)
    /\ records = 0
    /\ memo = NoMemo
    /\ rcall = Idle
    /\ rth = [t \in Threads |-> RouterThreadIdle(<<>>)]

SpecDistribute == DistributeInit /\ [][DistributeNext]_vars

\* The scorer's thresholds: the default 0.0, and 0.683.
Thresholds == {Ticks(0), Ticks(6830000)}

\* A scorer with any dim and threshold and its proving callers.
ProofInit ==
    /\ variant = "scorer"
    /\ LedgerQuiet
    /\ FabricQuiet
    /\ \E d \in 1..MaxDim : \E thr \in Thresholds : ScorerInit(d, thr, CacheMax)
    /\ requested = {}
    /\ pcall = Idle
    /\ pth = [t \in Threads |-> Idle]

SpecProof == ProofInit /\ [][ProofNext]_vars

\* A scorer with any dim and its callers asking for weights.
WeightsInit ==
    /\ variant = "scorer"
    /\ LedgerQuiet
    /\ FabricQuiet
    /\ \E d \in 0..MaxDim : ScorerInit(d, Ticks(0), CacheMax)
    /\ requested = {}
    /\ pcall = Idle
    /\ pth = [t \in Threads |-> Idle]

SpecWeights == WeightsInit /\ [][WeightsNext]_vars

\* One scorer shared by the threads, as the module-level poi is.
CacheInit ==
    /\ variant = "cache"
    /\ LedgerQuiet
    /\ FabricQuiet
    /\ \E d \in 1..MaxDim : ScorerInit(d, Ticks(0), CacheMax)
    /\ requested = {}
    /\ pcall = Idle
    /\ pth = [t \in Threads |-> CacheThreadIdle]

SpecCache == CacheInit /\ [][CacheNext]_vars

\* A router of two or more shards with one virtual node each, called by the
\* threads at the same time.
LocksInit ==
    /\ variant = "locks"
    /\ LedgerQuiet
    /\ ConsensusQuiet
    /\ \E n \in 2..MaxShards : RouterInit(n, 1)
    /\ records = 0
    /\ memo = NoMemo
    /\ rcall = Idle
    /\ rth = [t \in Threads |-> RouterThreadIdle(<<>>)]

SpecLocks == LocksInit /\ [][LocksNext]_vars

\* ================================================================ claims
\* Helpers of the statements below.
Resident(parents_, id) == id \in DOMAIN parents_

Occurrences(seq, x) == Cardinality({i \in 1..Len(seq) : seq[i] = x})

Elems(seq) == {seq[i] : i \in 1..Len(seq)}

\* The step in which add runs, on the strict and on the rolling ledger.
StrictAddStep == variant = "strict" /\ call.pc = "called" /\ call'.pc = "returned"

RollingAddStep == variant = "rolling" /\ call.pc = "called" /\ call'.pc = "returned"

TipsMatchChildCount(parents_, cc, tips) ==
    /\ tips \subseteq DOMAIN parents_
    /\ \A id \in DOMAIN parents_ :
          /\ id \in DOMAIN cc
          /\ (id \in tips <=> cc[id] = 0)

\* The scripted scenario has run to its end on a ledger with max_nodes = 3.
ScenarioDone == max_nodes = 3 /\ script.on /\ Len(script.oks) = Len(ScriptCalls)

\* C1: in the strict and in the rolling ledger, in every reachable state a
\* resident id is a tip if and only if its child count is 0, and every tip is
\* resident.
C1_TipInvariant ==
    /\ TipsMatchChildCount(s_parents, s_child_count, s_tips)
    /\ TipsMatchChildCount(r_parents, r_child_count, r_tips)

\* An add of the rolling ledger has evicted a node, and the ledger holds both
\* a tip and a resident parent that is no tip.
C1_Witness ==
    /\ variant = "rolling"
    /\ call.pc = "returned" /\ call.ok /\ call.evicted # {}
    /\ \E k \in DOMAIN r_parents : r_child_count[k] > 0 /\ k \notin r_tips
    /\ \E k \in DOMAIN r_parents : r_child_count[k] = 0 /\ k \in r_tips

\* C2: add of an id that is already resident returns (true, []) whatever
\* parents are passed and changes nothing of the ledger (strict: parents, child
\* counts, tips; rolling: also queue and bloom bits); and an accepted add
\* leaves its id resident, so that repeating it is accepted again.
C2_AddIdempotent ==
    /\ [](call.pc = "returned" /\ call.ok =>
            IF variant = "strict" THEN Resident(s_parents, call.tx)
            ELSE Resident(r_parents, call.tx))
    /\ [][ /\ (StrictAddStep /\ Resident(s_parents, call.tx))
                => /\ call'.ok = TRUE /\ call'.missing = <<>>
                   /\ UNCHANGED strictVars
           /\ (RollingAddStep /\ Resident(r_parents, call.tx))
                => /\ call'.ok = TRUE /\ call'.missing = <<>>
                   /\ UNCHANGED rollingVars ]_vars

\* add has just returned for a resident id, called with two parents that are
\* not the ones it is registered with, one of them not resident.
C2_Witness ==
    /\ variant = "rolling"
    /\ call.pc = "returned" /\ call.known /\ call.ok
    /\ call.tx # RootKey
    /\ Len(call.parents) = 2
    /\ call.parents # r_parents[call.tx]
    /\ \E i \in 1..2 : ~Resident(r_parents, call.parents[i])

\* C3: strict ledger, add(x, parents) of a non-resident x with a parent that
\* is neither ROOT nor resident returns (false, missing), missing being the
\* non-resident parents in the order given, and changes nothing.
C3_StrictRejection ==
    [][ LET NotKnown(p) == p # ROOT_ANCHOR /\ ~Resident(s_parents, p)
        IN (/\ StrictAddStep
            /\ ~Resident(s_parents, call.tx)
            /\ \E i \in 1..Len(call.parents) : NotKnown(call.parents[i]))
           => /\ call'.ok = FALSE
              /\ call'.missing = SelectSeq(call.parents, NotKnown)
              /\ UNCHANGED strictVars ]_vars

\* The strict ledger has just rejected an add that names a resident non-root
\* parent and a missing one.
C3_Witness ==
    /\ variant = "strict"
    /\ call.pc = "returned" /\ ~call.ok
    /\ call.missing # <<>>
    /\ ~Resident(s_parents, call.tx)
    /\ \E i \in 1..Len(call.parents) :
          call.parents[i] # ROOT_ANCHOR /\ Resident(s_parents, call.parents[i])

\* C4: rolling ledger, add(tx, parents) of a non-resident tx is rejected if
\* and only if some parent is not the root anchor, not resident and fails the
\* bloom test; missing lists exactly those parents; a rejection changes
\* nothing (resident set, queue, bloom bits, child counts, tips).
C4_RollingRejection ==
    [][ LET Fails(p) == /\ p # RootKey
                        /\ ~Resident(r_parents, p)
                        /\ \E h \in bloom_hashes(digest, p) : h \notin bloom
        IN (RollingAddStep /\ ~Resident(r_parents, call.tx))
           => /\ call'.ok = FALSE <=> \E i \in 1..Len(call.parents) : Fails(call.parents[i])
              /\ call'.missing = SelectSeq(call.parents, Fails)
              /\ call'.ok = FALSE => UNCHANGED <<rollingVars, r_seen>> ]_vars

\* The rolling ledger has just rejected an add one of whose parents fails the
\* bloom test while another, not resident either, passes it.
C4_Witness ==
    /\ variant = "rolling"
    /\ call.pc = "returned" /\ ~call.ok /\ call.missing # <<>>
    /\ ~Resident(r_parents, call.tx)
    /\ \E i \in 1..Len(call.parents) :
          /\ call.parents[i] # RootKey
          /\ ~Resident(r_parents, call.parents[i])
          /\ bloom_maybe_has(digest, bloom, call.parents[i])

\* The parents add works on: an empty list stands for the root anchor.
EffectiveParents(parents) == IF parents = <<>> THEN <<RootKey>> ELSE parents

\* Every non-root parent is resident or passes the bloom test.
AllParentsPass(parents) ==
    \A i \in 1..Len(parents) :
        \/ parents[i] = RootKey
        \/ Resident(r_parents, parents[i])
        \/ bloom_maybe_has(digest, bloom, parents[i])

\* What C5 says of an accepted add of a new tx: the node ends registered with
\* child count 0 and as a tip, each parent resident at the call and still
\* resident has its count raised by its occurrences, each other resident
\* node's count is unchanged, and a parent not resident at the call has no
\* child-count entry.
OptimisticEffect(tx, ps) ==
    /\ call'.ok = TRUE
    /\ Resident(r_parents', tx)
    /\ r_parents'[tx] = ps
    /\ r_child_count'[tx] = 0
    /\ tx \in r_tips'
    /\ \A p \in DOMAIN r_parents \cap DOMAIN r_parents' :
          r_child_count'[p] = r_child_count[p] + Occurrences(ps, p)
    /\ \A p \in Elems(ps) : ~Resident(r_parents, p) => p \notin DOMAIN r_child_count'

\* C5: rolling ledger, when every non-root parent of a new tx is resident or
\* passes the bloom test, add accepts; the node is registered with child count
\* 0 and is a tip, each resident parent's count is incremented, and no
\* child-count entry is created or changed for a non-resident parent.
C5_OptimisticAccept ==
    [][ (/\ RollingAddStep
         /\ ~Resident(r_parents, call.tx)
         /\ AllParentsPass(call.parents))
        => OptimisticEffect(call.tx, EffectiveParents(call.parents)) ]_vars

\* C5 restricted to a tx that does not name itself as parent: the part of C5
\* the ledger does satisfy.
C5_ExceptSelfParent ==
    [][ (/\ RollingAddStep
         /\ ~Resident(r_parents, call.tx)
         /\ call.tx \notin Elems(call.parents)
         /\ AllParentsPass(call.parents))
        => OptimisticEffect(call.tx, EffectiveParents(call.parents)) ]_vars

\* C6: every id the rolling ledger has registered (the root anchor from
\* construction) passes the bloom test in every later state, and no step
\* clears a bloom bit.
C6_BloomMonotone ==
    /\ [](\A k \in r_seen : bloom_maybe_has(digest, bloom, k))
    /\ [][bloom \subseteq bloom']_vars

\* An add has just evicted a registered id that shares no bloom bit with the
\* root anchor.
C6_Witness ==
    /\ variant = "rolling"
    /\ call.pc = "returned" /\ call.evicted # {}
    /\ \E k \in call.evicted :
          /\ k \in r_seen
          /\ ~Resident(r_parents, k)
          /\ bloom_hashes(digest, k) \cap bloom_hashes(digest, RootKey) = {}

\* C7 as claimed: after the scenario the resident size is at most 3.
C7_SizeAtMost3 == ScenarioDone => Cardinality(DOMAIN r_parents) <= 3

\* C7 as amended: after the scenario the resident size is 4, one more than
\* max_nodes: the root anchor and a, b, c are all resident.
C7_SizeIs4 ==
    ScenarioDone =>
        /\ Cardinality(DOMAIN r_parents) = max_nodes + 1
        /\ DOMAIN r_parents = {tx_fingerprint(i) : i \in {"ROOT", "a", "b", "c"}}

\* The third add of the scenario has just returned.
C7_Witness ==
    /\ ScenarioDone
    /\ call.pc = "returned" /\ call.tx = tx_fingerprint("c")

\* C8: after the scenario all three adds were accepted, the root anchor is
\* resident and the tips are exactly {c}.
C8_ScenarioTips ==
    ScenarioDone => /\ script.oks = <<TRUE, TRUE, TRUE>>
                    /\ Resident(r_parents, RootKey)
                    /\ r_tips = {tx_fingerprint("c")}

\* The scenario has run and its caller has taken the third result.
C8_Witness ==
    /\ ScenarioDone
    /\ call.pc = "idle"
    /\ r_order # <<>>

\* C9: for max_nodes >= 1 the rolling ledger holds at most max_nodes + 1
\* resident nodes, the root anchor included, whenever add is not running.
C9_BoundedResidency ==
    max_nodes >= 1 => Cardinality(DOMAIN r_parents) <= max_nodes + 1

\* An add has just evicted a node and the ledger is one over its limit.
C9_Witness ==
    /\ variant = "rolling"
    /\ max_nodes >= 1
    /\ call.pc = "returned" /\ call.evicted # {}
    /\ Cardinality(DOMAIN r_parents) = max_nodes + 1

\* C10: in both ledgers the root anchor is resident with an empty parent
\* tuple in every reachable state, for every max_nodes >= 0.
C10_RootPermanent ==
    /\ Resident(s_parents, ROOT_ANCHOR) /\ s_parents[ROOT_ANCHOR] = <<>>
    /\ Resident(r_parents, RootKey) /\ r_parents[RootKey] = <<>>

\* An add on a ledger with max_nodes = 0 has just evicted a node; the root
\* anchor was popped and put back at the end of the queue.
C10_Witness ==
    /\ variant = "rolling"
    /\ max_nodes = 0
    /\ call.pc = "returned" /\ call.evicted # {}
    /\ r_order[Len(r_order)] = RootKey

\* C12: in either ledger, add(id, []) of a non-resident id is accepted; the
\* node is registered with the single parent ROOT, the root anchor's child
\* count grows by exactly one and the root anchor is no tip afterwards.
C12_ImplicitRoot ==
    [][ /\ (StrictAddStep /\ ~Resident(s_parents, call.tx) /\ call.parents = <<>>)
             => /\ call'.ok = TRUE /\ call'.missing = <<>>
                /\ Resident(s_parents', call.tx)
                /\ s_parents'[call.tx] = <<ROOT_ANCHOR>>
                /\ s_child_count'[ROOT_ANCHOR] = s_child_count[ROOT_ANCHOR] + 1
                /\ ROOT_ANCHOR \notin s_tips'
        /\ (RollingAddStep /\ ~Resident(r_parents, call.tx) /\ call.parents = <<>>)
             => /\ call'.ok = TRUE /\ call'.missing = <<>>
                /\ Resident(r_parents', call.tx)
                /\ r_parents'[call.tx] = <<RootKey>>
                /\ r_child_count'[RootKey] = r_child_count[RootKey] + 1
                /\ RootKey \notin r_tips' ]_vars

\* add(id, []) has just registered a new node while the root anchor already
\* had a child: on the strict ledger, and on the rolling ledger with an
\* eviction.
C12_Witness ==
    /\ call.pc = "returned" /\ call.parents = <<>> /\ ~call.known /\ call.ok
    /\ \/ variant = "strict" /\ s_child_count[ROOT_ANCHOR] >= 2
       \/ variant = "rolling" /\ r_child_count[RootKey] >= 2 /\ call.evicted # {}

\* The outcome of the n-th add when add is called on items[1], ..., items[n]
\* in turn, from the strict ledger state st.
RECURSIVE StrictAdds(_, _, _)
StrictAdds(st, items, n) ==
    LET prev == IF n = 1 THEN st
                ELSE LET q == StrictAdds(st, items, n - 1)
                     IN [parents |-> q.parents, cc |-> q.cc, tips |-> q.tips]
    IN StrictAddResult(prev.parents, prev.cc, prev.tips, items[n][1], items[n][2])

\* The same on the rolling ledger, from state st with bloom bits `bits`.
RECURSIVE RollingAdds(_, _, _, _)
RollingAdds(st, bits, items, n) ==
    LET prev == IF n = 1 THEN [st |-> st, bloom |-> bits]
                ELSE RollingAdds(st, bits, items, n - 1)
    IN RollingAddResult([prev.st EXCEPT !.evicted = {}], digest, prev.bloom, max_nodes,
                        items[n][1], items[n][2])

\* What add_batch is to return for items whose i-th add returns
\* (Ok(i), Missing(i)): the accepted ids in order, and each rejected id with
\* the missing list of its (last) rejected add.
BatchOutcome(out, items, Ok(_), Missing(_)) ==
    LET n == Len(items)
        accepted == SelectSeq([i \in 1..n |-> i], Ok)
    IN /\ out.accepted = [k \in 1..Len(accepted) |-> items[accepted[k]][1]]
       /\ DOMAIN out.rejected = {items[i][1] : i \in {j \in 1..n : ~Ok(j)}}
       /\ \A i \in 1..n :
             (~Ok(i) /\ \A j \in (i + 1)..n : items[j][1] = items[i][1] => Ok(j))
                => out.rejected[items[i][1]] = Missing(i)

\* An item all of whose parents are the root anchor or ids accepted earlier
\* in the same batch is accepted.
EarlierItemsServe(items, root, Ok(_)) ==
    \A j \in 1..Len(items) :
        (\A p \in Elems(items[j][2]) :
            p = root \/ \E i \in 1..(j - 1) : items[i][1] = p /\ Ok(i))
        => Ok(j)

\* C11: add_batch(items) leaves the ledger in the state, and returns the
\* results, of add called on each item in list order: accepted lists in
\* order the ids whose add returned true, rejected maps the ids whose add
\* returned false to their missing lists, tips and size are those of the
\* ledger after the last item; an item naming earlier accepted items as
\* parents is accepted.
C11_BatchSequential ==
    [][ /\ (variant = "strict" /\ batch.pc = "called" /\ batch'.pc = "returned")
             => LET items == batch.items
                    n == Len(items)
                    R(i) == StrictAdds(StrictState, items, i)
                    Ok(i) == R(i).ok
                    Missing(i) == R(i).missing
                    last == IF n = 0 THEN StrictState
                            ELSE [parents |-> R(n).parents, cc |-> R(n).cc, tips |-> R(n).tips]
                IN /\ s_parents' = last.parents
                   /\ s_child_count' = last.cc
                   /\ s_tips' = last.tips
                   /\ BatchOutcome(batch'.out, items, Ok, Missing)
                   /\ batch'.out.tips = s_tips'
                   /\ batch'.out.size = Cardinality(DOMAIN s_parents')
                   /\ EarlierItemsServe(items, ROOT_ANCHOR, Ok)
        /\ (variant = "rolling" /\ batch.pc = "called" /\ batch'.pc = "returned")
             => LET items == batch.items
                    n == Len(items)
                    R(i) == RollingAdds(RollingState, bloom, items, i)
                    Ok(i) == R(i).ok
                    Missing(i) == R(i).missing
                    last == IF n = 0 THEN [st |-> RollingState, bloom |-> bloom]
                            ELSE R(n)
                IN /\ r_parents' = last.st.parents
                   /\ r_child_count' = last.st.cc
                   /\ r_tips' = last.st.tips
                   /\ r_order' = last.st.order
                   /\ bloom' = last.bloom
                   /\ BatchOutcome(batch'.out, items, Ok, Missing)
                   /\ batch'.out.tips = r_tips'
                   /\ batch'.out.size = Cardinality(DOMAIN r_parents')
                   /\ EarlierItemsServe(items, RootKey, Ok) ]_vars

\* add_batch has just returned on the strict ledger for two items: the first
\* was rejected for naming the second as parent, the second was accepted
\* and is registered.
C11_Witness ==
    /\ variant = "strict"
    /\ batch.pc = "returned" /\ Len(batch.items) = 2
    /\ batch.items[1][1] \in DOMAIN batch.out.rejected
    /\ batch.out.accepted = <<batch.items[2][1]>>
    /\ batch.items[2][1] # batch.items[1][1]
    /\ batch.items[1][2] = <<batch.items[2][1]>>
    /\ Resident(s_parents, batch.items[2][1])
    /\ ~Resident(s_parents, batch.items[1][1])

\* add_batch has just returned on the rolling ledger for two accepted items,
\* the second naming the first as its parent, the first evicted since.
C11_WitnessEarlierParent ==
    /\ variant = "rolling"
    /\ batch.pc = "returned" /\ Len(batch.items) = 2
    /\ batch.items[2][2] = <<batch.items[1][1]>>
    /\ batch.items[2][1] # batch.items[1][1]
    /\ batch.out.accepted = <<batch.items[1][1], batch.items[2][1]>>
    /\ ~Resident(r_parents, batch.items[1][1])

\* Every thread has returned from its call of add.
AllDone == variant = "threads" /\ \A t \in Threads : th[t].pc = "done"

\* The ledger and the values returned are those of thread t1's call run to
\* its end on the fresh ledger and thread t2's call run after it.
SerialOutcome(t1, t2) ==
    LET fresh == [parents |-> [x \in {RootKey} |-> <<>>],
                  cc |-> [x \in {RootKey} |-> 0],
                  tips |-> {RootKey}, order |-> <<RootKey>>, evicted |-> {}]
        items == << <<th[t1].tx, th[t1].parents>>, <<th[t2].tx, th[t2].parents>> >>
        r1 == RollingAdds(fresh, bloom_add(digest, {}, RootKey), items, 1)
        r2 == RollingAdds(fresh, bloom_add(digest, {}, RootKey), items, 2)
    IN /\ th[t1].ret = Ret(r1.ok, r1.missing, FALSE)
       /\ th[t2].ret = Ret(r2.ok, r2.missing, FALSE)
       /\ r_parents = r2.st.parents
       /\ r_child_count = r2.st.cc
       /\ r_tips = r2.st.tips
       /\ r_order = r2.st.order
       /\ bloom = r2.bloom

\* C13: two threads call add on one rolling ledger at the same time; once
\* both have returned, the values returned and the ledger are those of one of
\* the two serial orders, and the tip invariant holds.
C13_Serialized ==
    AllDone => /\ SerialOutcome(1, 2) \/ SerialOutcome(2, 1)
               /\ TipsMatchChildCount(r_parents, r_child_count, r_tips)

\* What the unlocked add does with two calls for the same new id: the id is
\* queued twice and its parent counted twice.
C13_RegisteredTwice ==
    /\ AllDone
    /\ th[1].tx = th[2].tx
    /\ Occurrences(r_order, th[1].tx) = 2
    /\ r_child_count[RootKey] = 2

\* What the unlocked add does with a parent and its child added at the same
\* time: the parent ends as a tip with a child counted.
C13_TipWithChild ==
    /\ AllDone
    /\ th[1].tx # th[2].tx
    /\ th[2].parents = <<th[1].tx>>
    /\ th[1].tx \in r_tips
    /\ th[1].tx \in DOMAIN r_child_count /\ r_child_count[th[1].tx] = 1

\* ------------------------------------------------------ router claims
Min(S) == CHOOSE x \in S : \A y \in S : x <= y

\* The caller holds what a lookup of the given kind has just returned.
Looked(op) == variant = "router" /\ rcall.pc = "returned" /\ rcall.op = op

\* The virtual key that serves hash h: the smallest one in `at_or_above`
\* (those that count as reached from h), or the smallest of the ring when
\* there is none.
ServingKey(at_or_above) ==
    IF at_or_above # {} THEN Min(at_or_above) ELSE Min(DOMAIN ring)

\* C14 as claimed: on a non-empty ring route(k) returns the shard owning the
\* smallest virtual key >= hash(k), or the smallest virtual key of the ring
\* when there is none; also when hash(k) is a virtual key.
C14_RouteLookup ==
    (Looked("route") /\ DOMAIN ring # {})
    => rcall.result = ring[ServingKey({v \in DOMAIN ring : v >= hash(rcall.key)})]

\* C14 as amended: on a non-empty ring route(k) returns the shard owning the
\* smallest virtual key strictly greater than hash(k), or the smallest
\* virtual key of the ring when there is none; a key whose hash is a virtual
\* key is served by the next virtual key.
C14_RouteLookupStrict ==
    (Looked("route") /\ DOMAIN ring # {})
    => rcall.result = ring[ServingKey({v \in DOMAIN ring : v > hash(rcall.key)})]

\* route has just returned for a key whose hash is a virtual key of the
\* ring, with a shard that does not own that virtual key.
C14_Witness ==
    /\ Looked("route")
    /\ hash(rcall.key) \in DOMAIN ring
    /\ rcall.result # ring[hash(rcall.key)]

\* route has just returned for a key whose hash is above every virtual key.
C14_WitnessWrap ==
    /\ Looked("route")
    /\ DOMAIN ring # {}
    /\ \A v \in DOMAIN ring : v < hash(rcall.key)
    /\ Cardinality(DOMAIN ring) >= 4

\* C15: the ring is never modified after construction, and route(k) returns
\* the same shard on every call for the same key, whatever calls are made
\* in between, load reports and load-aware lookups included.
C15_Deterministic ==
    [][/\ ring' = ring
       /\ sorted_keys' = sorted_keys
       /\ (rcall'.pc = "returned" /\ rcall'.op = "route" /\ memo.key = rcall'.key)
             => rcall'.result = memo.shard]_vars

\* route has just returned for a key it was called with earlier, the load
\* of the shard it returned having been reported since the earlier call.
C15_Witness ==
    /\ Looked("route")
    /\ memo.key = rcall.key
    /\ memo.at < records
    /\ rcall.result \in DOMAIN load
    /\ load[rcall.result] # EwmaZero
    /\ \E s \in DOMAIN load : load[s] = EwmaZero

\* C16: a router built with zero shards or zero replication does not exist
\* (construction raises), so the ring of a router is never empty and neither
\* lookup ever returns None.
C16_InvalidConfigFatal ==
    (Looked("route") \/ Looked("load_aware"))
    => /\ num_shards >= 1
       /\ replication_factor >= 1
       /\ DOMAIN ring # {}
       /\ rcall.result # None

\* The place in the sorted key list of the virtual key that serves the key
\* of the caller's lookup, and the shard met j virtual nodes further along
\* the ring (j = 0: the static candidate).
StaticPos ==
    CHOOSE i \in 1..Len(sorted_keys) :
        sorted_keys[i] = ServingKey({v \in DOMAIN ring : v > hash(rcall.key)})

Walk(j) == ring[sorted_keys[((StaticPos - 1 + j) % Len(sorted_keys)) + 1]]

\* Its EWMA: every owner of a virtual node is a configured shard.
WalkLoad(j) == load[Walk(j)]

\* C17: with probe >= 1 the load-aware lookup returns an examined shard (the
\* static candidate and the owners of the next `probe` virtual nodes) whose
\* EWMA is the minimum over the examined shards; it returns the static
\* candidate when no examined shard is strictly lower, and otherwise the
\* first shard of minimum EWMA in walk order. On an empty ring there is
\* nothing to examine and it returns what the static lookup returns.
C17_LoadAwareResult ==
    (Looked("load_aware") /\ rcall.probe >= 1)
    => IF DOMAIN ring = {}
       THEN rcall.result = get_shard_for_transaction(ring, sorted_keys, rcall.key)
       ELSE LET P == 0..rcall.probe
                lowest == {j \in P : \A i \in P : ~Less(WalkLoad(i), WalkLoad(j))}
            IN /\ Walk(0) = get_shard_for_transaction(ring, sorted_keys, rcall.key)
               /\ \E j \in lowest : rcall.result = Walk(j)
               /\ (\A j \in P : ~Less(WalkLoad(j), WalkLoad(0)))
                     => rcall.result = Walk(0)
               /\ rcall.result = Walk(Min(lowest))

\* A load-aware lookup has just returned a shard other than the static
\* candidate, two different examined shards being strictly lower than the
\* candidate with equal EWMA.
C17_Witness ==
    /\ Looked("load_aware")
    /\ DOMAIN ring # {}
    /\ rcall.probe >= 1
    /\ rcall.result # Walk(0)
    /\ \E i, j \in 1..rcall.probe :
          /\ Walk(i) # Walk(j)
          /\ WalkLoad(i) = WalkLoad(j)
          /\ Less(WalkLoad(i), WalkLoad(0))

\* A load-aware lookup has just returned the static candidate although the
\* loads are not all zero: every examined shard is as loaded as it is.
C17_WitnessTie ==
    /\ Looked("load_aware")
    /\ DOMAIN ring # {}
    /\ rcall.probe >= 1
    /\ rcall.result = Walk(0)
    /\ WalkLoad(0) # EwmaZero
    /\ \E j \in 1..rcall.probe : Walk(j) # Walk(0) /\ WalkLoad(j) = WalkLoad(0)

\* A step in which record_shard_load is called and returns.
Recorded == rcall.pc = "idle" /\ rcall'.pc = "returned" /\ rcall'.op = "record"

\* new = (1 - 1/AlphaDen) * old + (1/AlphaDen) * (latency_ms / count) on the
\* exact values, with every division multiplied out.
IsEwmaStep(old, new, latency_ms, count) ==
    new.n * Pow5(old.e + 1) * count
      = ((AlphaDen - 1) * old.n * count + latency_ms * Pow5(old.e)) * Pow5(new.e)

\* C18: every EWMA starts at 0; record_shard_load(shard, latency_ms, items)
\* on a configured shard replaces that shard's EWMA by
\* 0.8 * ewma + 0.2 * (latency_ms / max(1, items)) and leaves the others
\* alone; with items <= 0 it returns normally and has exactly the effect of
\* the same call with items = 1.
C18_RecordLoad ==
    /\ [](records = 0 => \A s \in DOMAIN load : load[s] = EwmaZero)
    /\ [][(Recorded /\ rcall'.shard_id \in DOMAIN load)
           => LET s == rcall'.shard_id
                  count == IF rcall'.items >= 1 THEN rcall'.items ELSE 1
              IN /\ IsEwmaStep(load[s], load'[s], rcall'.latency_ms, count)
                 /\ \A o \in DOMAIN load \ {s} : load'[o] = load[o]
                 /\ DOMAIN load' = DOMAIN load
                 /\ rcall'.items <= 0
                      => load' = record_shard_load(load, last_seen, 0, s,
                                                   rcall'.latency_ms, 1).load]_vars

\* record_shard_load has just returned from a call with items <= 0 and a
\* positive latency on a configured shard whose EWMA was not 0 before.
C18_Witness ==
    /\ variant = "router"
    /\ rcall.pc = "returned" /\ rcall.op = "record"
    /\ rcall.items <= 0
    /\ rcall.latency_ms > 0
    /\ rcall.shard_id \in DOMAIN load
    /\ load[rcall.shard_id].e >= 1

\* C19: when the EWMA of the static shard of a key is strictly greater than
\* the EWMA of the shard owning one of the next `probe` virtual nodes after
\* the key's ring position, as after a report of a positive latency for the
\* static shard, the load-aware lookup of the key with that probe returns a
\* shard different from the static one.
C19_LoadSensitive ==
    (/\ Looked("load_aware")
     /\ DOMAIN ring # {}
     /\ rcall.probe >= 1
     /\ \E j \in 1..rcall.probe : Less(WalkLoad(j), WalkLoad(0)))
    => /\ rcall.result # get_shard_for_transaction(ring, sorted_keys, rcall.key)
       /\ Less(load[rcall.result], WalkLoad(0))

\* A positive latency has been reported for the static shard of a key and
\* for no other shard, and the load-aware lookup of the key has just
\* returned another shard.
C19_Witness ==
    /\ Looked("load_aware")
    /\ DOMAIN ring # {}
    /\ rcall.probe >= 1
    /\ records >= 1
    /\ WalkLoad(0) # EwmaZero
    /\ \A s \in DOMAIN load \ {Walk(0)} : load[s] = EwmaZero
    /\ \E j \in 1..rcall.probe : Less(WalkLoad(j), WalkLoad(0))
    /\ rcall.result # Walk(0)

\* The per-item latencies reported for shard sid, thread by thread.
RECURSIVE ReportsFor(_, _)
ReportsFor(made, sid) ==
    IF made = <<>> THEN <<>>
    ELSE LET rest == ReportsFor(Tail(made), sid)
             a == Head(made)
         IN IF a.shard_id = sid
            THEN <<a.latency_ms \div (IF a.items >= 1 THEN a.items ELSE 1)>> \o rest
            ELSE rest

AllReportsFor(sid) == ReportsFor(rth[1].made, sid) \o ReportsFor(rth[2].made, sid)

\* The orders in which n calls can be applied one after the other.
Orders(n) == {p \in [1..n -> 1..n] : \A i, j \in 1..n : p[i] = p[j] => i = j}

\* The EWMA after applying the samples xs in the order p from the i-th on,
\* starting at v: 0.8 * v + 0.2 * x at each one.
RECURSIVE AppliedInOrder(_, _, _, _)
AppliedInOrder(xs, p, i, v) ==
    IF i > Len(xs) THEN v
    ELSE AppliedInOrder(xs, p, i + 1,
                        Lowest([n |-> (AlphaDen - 1) * v.n + xs[p[i]] * Pow5(v.e),
                                e |-> v.e + 1]))

RouterThreadsOut == \A t \in Threads : rth[t].pc \in {"idle", "done"}

InsideLock == {"rsl_get", "rsl_read", "rsl_write", "rsl_last_seen", "rsl_unlock",
               "la_best", "la_probe", "la_unlock"}

\* C20: with threads running record_shard_load and the load-aware lookup at
\* the same time, every access to the load map is made by the thread that
\* holds the lock; once the calls are over the EWMA of each shard is what
\* applying the reports made for it one after the other, in some order,
\* gives; and every load a lookup has compared is the load its shard had in
\* the load map at the one moment the lookup took the lock, so that the
\* lookup returns what it returns when nothing runs beside it.
C20_MutualExclusion ==
    variant = "locks" =>
    /\ \A t \in Threads : rth[t].pc \in InsideLock => lock = t
    /\ RouterThreadsOut =>
          \A sid \in DOMAIN load :
             \E p \in Orders(Len(AllReportsFor(sid))) :
                load[sid] = AppliedInOrder(AllReportsFor(sid), p, 1, EwmaZero)
    /\ \A t \in Threads :
          (rth[t].op = "load_aware" /\ rth[t].pc \in {"la_probe", "la_unlock", "done"}
             /\ DOMAIN ring # {})
          => /\ \A i \in 1..Len(rth[t].l.read) :
                   rth[t].l.read[i].load = rth[t].l.held[rth[t].l.read[i].shard]
             /\ rth[t].pc = "done"
                  => rth[t].l.result = get_shard_for_transaction_load_aware(
                         ring, sorted_keys, rth[t].l.held, rth[t].a.tx_id, rth[t].a.probe)

\* Both threads have reported a load for the same shard, with different
\* latencies, have returned, and the EWMA of the shard is not the one either
\* report gives alone.
C20_Witness ==
    /\ variant = "locks"
    /\ RouterThreadsOut
    /\ \E sid \in DOMAIN load :
          /\ Len(ReportsFor(rth[1].made, sid)) = 1
          /\ Len(ReportsFor(rth[2].made, sid)) = 1
          /\ ReportsFor(rth[1].made, sid) # ReportsFor(rth[2].made, sid)
          /\ \A t \in Threads :
                load[sid] # AppliedInOrder(ReportsFor(rth[t].made, sid), <<1>>, 1, EwmaZero)

\* A thread is between the read and the write of an EWMA while the other
\* thread waits for the lock to report a load for the same shard.
C20_WitnessWaiting ==
    /\ variant = "locks"
    /\ \E t, u \in Threads :
          /\ rth[t].pc = "rsl_write"
          /\ rth[u].pc = "rsl_lock"
          /\ rth[u].a.shard_id = rth[t].a.shard_id

\* A lookup has read the load of its candidate and is probing while the
\* other thread waits for the lock to report a load for that candidate.
C20_WitnessProbing ==
    /\ variant = "locks"
    /\ \E t, u \in Threads :
          /\ rth[t].pc = "la_probe"
          /\ rth[u].pc = "rsl_lock"
          /\ rth[u].a.shard_id = rth[t].l.read[1].shard
          /\ rth[u].a.latency_ms > 0

\* The transactions of txs that the load-aware lookup, with the default
\* probe, sends to shard sid, in the order of txs.
RECURSIVE SentTo(_, _)
SentTo(txs, sid) ==
    IF txs = <<>> THEN <<>>
    ELSE LET tx == Head(txs)
             key == IF tx.id # None THEN tx.id ELSE tx.sender
             to == get_shard_for_transaction_load_aware(ring, sorted_keys, load,
                                                        key, DefaultProbe)
         IN (IF to = sid THEN <<tx>> ELSE <<>>) \o SentTo(Tail(txs), sid)

RECURSIVE TotalLength(_, _)
TotalLength(lists, sids) ==
    IF sids = {} THEN 0
    ELSE LET sid == CHOOSE x \in sids : TRUE
         IN Len(lists[sid]) + TotalLength(lists, sids \ {sid})

\* The map distribute_batch has returned partitions its input.
Partitioned ==
    /\ ~rcall.result.raised
    /\ DOMAIN rcall.result.batches = Shards(num_shards)
    /\ \A sid \in Shards(num_shards) :
          rcall.result.batches[sid] = SentTo(rcall.transactions, sid)
    /\ TotalLength(rcall.result.batches, Shards(num_shards)) = Len(rcall.transactions)

\* C21: on a router with at least one shard distribute_batch returns a map
\* with one list per configured shard; every transaction of the input is in
\* the list of the shard the load-aware lookup returns for its id, or for
\* its sender when it has no id, as many times as it is in the input and in
\* input order; the lengths of the lists add up to the length of the input.
C21_BatchPartition ==
    (Looked("distribute") /\ num_shards >= 1) => Partitioned

\* The same on a router that also has at least one virtual node per shard.
C21_OnRing ==
    (Looked("distribute") /\ num_shards >= 1 /\ replication_factor >= 1) => Partitioned

\* distribute_batch has just returned from a list of two transactions that
\* went to the same shard, the first routed by its sender, while another
\* shard carries a load.
C21_OnRingWitness ==
    /\ Looked("distribute")
    /\ replication_factor >= 1
    /\ Len(rcall.transactions) = 2
    /\ rcall.transactions[1].id = None
    /\ rcall.transactions[1] # rcall.transactions[2]
    /\ \E sid \in Shards(num_shards) : Len(rcall.result.batches[sid]) = 2
    /\ \E sid \in Shards(num_shards) : load[sid] # EwmaZero

\* C22: on a router built with at least one shard and at least one virtual
\* node per shard, the static and the load-aware lookup return, for every
\* key and probe and after any load reports, one of shard_0 ..
\* shard_(num_shards - 1), never None.
C22_ConfiguredShard ==
    ((Looked("route") \/ Looked("load_aware"))
       /\ num_shards >= 1 /\ replication_factor >= 1)
    => /\ rcall.result # None
       /\ \E i \in 0..(num_shards - 1) : rcall.result = ShardId(i)

\* The static lookup has just returned for a key whose hash is above every
\* virtual key of a ring of several shards, after two load reports.
C22_Witness ==
    /\ Looked("route")
    /\ num_shards >= 2
    /\ replication_factor >= 1
    /\ records >= 2
    /\ \A v \in DOMAIN ring : v < hash(rcall.key)

\* The load-aware lookup has just returned a shard other than the static
\* one on a ring of several shards, after a load report.
C22_WitnessLoadAware ==
    /\ Looked("load_aware")
    /\ num_shards >= 2
    /\ replication_factor >= 1
    /\ records >= 1
    /\ rcall.result # get_shard_for_transaction(ring, sorted_keys, rcall.key)

\* ------------------------------------------------------ scorer claims
\* The caller holds what verify has just returned.
Verified == variant = "scorer" /\ pcall.pc = "returned" /\ pcall.op = "verify"

\* ... for the very proof make_proof returned.
VerifiedMade == Verified /\ pcall.p = pcall.made

\* |x| >= y and |x| < y on numbers; neither holds of a NaN.
AtLeast(x, y) == ~x.nan /\ ~y.nan /\ (IF x.t < 0 THEN 0 - x.t ELSE x.t) >= y.t

Below(x, y) == ~x.nan /\ ~y.nan /\ (IF x.t < 0 THEN 0 - x.t ELSE x.t) < y.t

\* C23 as claimed: verify(make_proof(tx_id, vector, validator_id)) returns
\* (True, "ok") when |score| >= threshold and (False, "score_too_low") in
\* every other case; with the threshold 0 it returns (True, "ok").
C23_RoundTrip ==
    VerifiedMade
    => /\ pcall.result = IF AtLeast(pcall.p.score, threshold)
                         THEN <<TRUE, "ok">> ELSE <<FALSE, "score_too_low">>
       /\ threshold = Ticks(0) => pcall.result = <<TRUE, "ok">>

\* C23 as amended: verify(make_proof(tx_id, vector, validator_id)) returns
\* (False, "score_too_low") when |score| < threshold and (True, "ok") in
\* every other case, which are |score| >= threshold and a score that is
\* NaN; with the threshold 0 it returns (True, "ok").
C23_RoundTripNaN ==
    VerifiedMade
    => /\ pcall.result = IF Below(pcall.p.score, threshold)
                         THEN <<FALSE, "score_too_low">> ELSE <<TRUE, "ok">>
       /\ AtLeast(pcall.p.score, threshold) => pcall.result = <<TRUE, "ok">>
       /\ threshold = Ticks(0) => pcall.result = <<TRUE, "ok">>

\* verify has just returned for a fresh proof whose score is NaN, on a
\* scorer with a positive threshold.
C23_Witness ==
    /\ VerifiedMade
    /\ pcall.p.score.nan
    /\ threshold.t > 0

\* verify has just returned for a fresh proof whose score is, in absolute
\* value, the positive threshold itself.
C23_WitnessAtThreshold ==
    /\ VerifiedMade
    /\ threshold.t > 0
    /\ ~pcall.p.score.nan
    /\ pcall.p.score.t = 0 - threshold.t

\* verify has just returned for a fresh proof with a score other than 0
\* below the threshold.
C23_WitnessTooLow ==
    /\ VerifiedMade
    /\ ~pcall.p.score.nan
    /\ pcall.p.score.t # 0
    /\ Below(pcall.p.score, threshold)

\* The fields in which the proof verified differs from the proof made.
Changed ==
    {f \in {"validator_id", "tx_id", "score", "proof"} : pcall.p[f] # pcall.made[f]}

C24_WitnessSameText ==
    /\ Verified
    /\ Changed = {"score"}
    /\ Format6(pcall.p.score) = Format6(pcall.made.score)
    /\ pcall.result = <<TRUE, "ok">>

\* verify has just returned for a proof with another validator_id, one that
\* ends in the first characters of the payload of the proof made.
C24_WitnessSeparator ==
    /\ Verified
    /\ Changed = {"validator_id"}
    /\ pcall.made.validator_id = <<"v", "|", "t">>
    /\ pcall.p.validator_id = <<"v">>

\* The number of millionths nearest to a score that is not NaN, as
\* round(score, 6) gives it.
Rounded(x) == IF Format6(x).neg THEN 0 - Format6(x).micros ELSE Format6(x).micros

\* verify finds the hash of proof p wrong.
BadProof(p) == verify(threshold, p) = <<FALSE, "bad_proof">>

\* C25 as claimed: two proofs with the same validator_id, tx_id and proof
\* whose scores are equal when rounded to 6 decimals both pass or both fail
\* the hash check of verify.
C25_RoundedAlike ==
    Verified =>
       \A s \in ScoreChanges(pcall.p.score) :
          (~s.nan /\ ~pcall.p.score.nan /\ Rounded(s) = Rounded(pcall.p.score))
          => (BadProof([pcall.p EXCEPT !.score = s])
                <=> pcall.result = <<FALSE, "bad_proof">>)

\* C25 as amended: two proofs with the same validator_id, tx_id and proof
\* whose scores read the same at 6 decimals, sign included, both pass or
\* both fail the hash check of verify.
C25_SameTextAlike ==
    Verified =>
       \A s \in ScoreChanges(pcall.p.score) :
          Format6(s) = Format6(pcall.p.score)
          => (BadProof([pcall.p EXCEPT !.score = s])
                <=> pcall.result = <<FALSE, "bad_proof">>)

\* verify has just passed the hash of a proof with score 1/128, which is
\* half way between 0.007812 and 0.007813, and passes it with 0.007812 too.
C25_Witness ==
    /\ Verified
    /\ pcall.p.score = Ticks(78125)
    /\ pcall.result # <<FALSE, "bad_proof">>
    /\ Ticks(78120) \in ScoreChanges(pcall.p.score)
    /\ ~BadProof([pcall.p EXCEPT !.score = Ticks(78120)])

\* verify has just found a hash wrong that it finds wrong also with a score
\* that reads the same at 6 decimals.
C25_WitnessBothFail ==
    /\ Verified
    /\ pcall.result = <<FALSE, "bad_proof">>
    /\ \E s \in ScoreChanges(pcall.p.score) :
          /\ Format6(s) = Format6(pcall.p.score)
          /\ BadProof([pcall.p EXCEPT !.score = s])

\* The hash of the proof verify was given is the hash of its other fields.
HashMatches ==
    pcall.p.proof = [sha256 |-> [head |-> pcall.p.validator_id \o <<"|">> \o pcall.p.tx_id,
                                 score |-> Format6(pcall.p.score)]]

\* C26: verify returns one of (False, "bad_proof"), (False, "score_too_low")
\* and (True, "ok"): "bad_proof" whenever the hash does not match, even with
\* |score| < threshold; "score_too_low" only when the hash matches and
\* |score| < threshold; (True, "ok") in every other case.  A step that
\* verifies changes neither the weight cache nor dim, threshold or cache_max.
C26_VerifyOutcomes ==
    /\ [](Verified =>
            /\ pcall.result \in {<<FALSE, "bad_proof">>, <<FALSE, "score_too_low">>,
                                 <<TRUE, "ok">>}
            /\ ~HashMatches => pcall.result = <<FALSE, "bad_proof">>
            /\ pcall.result = <<FALSE, "score_too_low">>
                  <=> (HashMatches /\ Below(pcall.p.score, threshold)))
    /\ [][(pcall'.pc = "returned" /\ pcall'.op = "verify")
             => UNCHANGED <<weights_cache, requested, dim, threshold, cache_max>>]_vars

\* verify has just answered "bad_proof" for a proof whose hash is wrong and
\* whose score is below the threshold.
C26_Witness ==
    /\ Verified
    /\ ~HashMatches
    /\ Below(pcall.p.score, threshold)
    /\ pcall.result = <<FALSE, "bad_proof">>

\* verify has just answered "score_too_low" with a weight cache that holds
\* the validator of the proof.
C26_WitnessTooLow ==
    /\ Verified
    /\ pcall.result = <<FALSE, "score_too_low">>
    /\ pcall.p.validator_id \in DOMAIN weights_cache

\* verify has just answered (True, "ok") for a score equal to the threshold.
C26_WitnessOk ==
    /\ Verified
    /\ HashMatches
    /\ threshold # Ticks(0)
    /\ FloatAbs(pcall.p.score) = threshold
    /\ pcall.result = <<TRUE, "ok">>

\* A call that went through _weights_for has returned.
Weighed ==
    /\ variant = "scorer"
    /\ pcall.pc = "returned"
    /\ pcall.op \in {"weights_for", "score_vector", "make_proof"}

\* _weights_for itself has returned.
WeightsReturned == Weighed /\ pcall.op = "weights_for"

\* The generator state of a validator after i advances: the seed, then
\* _xorshift32(state + i) for i = 0, 1, ...
RECURSIVE StateAt(_, _)
StateAt(validator_id, i) ==
    IF i = 0 THEN seed_from(validator_id)
    ELSE xorshift32(WordAdd(StateAt(validator_id, i - 1), i - 1))

\* C27: _weights_for returns exactly dim integers, each in -1000..1000 and
\* each (state mod 2001) - 1000 for a 32-bit generator state advanced once per
\* dimension from the seed of the validator.
C27_WeightsRange ==
    WeightsReturned =>
       /\ DOMAIN pcall.result = 1..dim
       /\ \A i \in 1..dim :
             /\ pcall.result[i] \in -1000..1000
             /\ StateAt(pcall.validator_id, i).hi \in 0..(Half - 1)
             /\ StateAt(pcall.validator_id, i).lo \in 0..(Half - 1)
             /\ pcall.result[i] = Mod2001(StateAt(pcall.validator_id, i)) - 1000

\* _weights_for has just computed the weights -683 and 246 of validator "v".
C27_Witness ==
    /\ WeightsReturned
    /\ dim = 2
    /\ ~pcall.found.hit
    /\ pcall.validator_id = <<"v">>
    /\ pcall.result = <<-683, 246>>

\* _weights_for has just returned no weights, for dimension 0.
C27_WitnessEmpty == WeightsReturned /\ dim = 0 /\ pcall.result = <<>>

\* C28: _weights_for returns for a validator the weights computed without a
\* cache, on a hit, on a miss and after the cache was cleared, whichever
\* validators were asked for before; score_vector scores with those weights.
C28_CacheTransparent ==
    /\ WeightsReturned => pcall.result = ComputeWeights(pcall.validator_id, dim)
    /\ (Weighed /\ pcall.op = "score_vector")
          => pcall.result = score_vector(pcall.vector,
                                         ComputeWeights(pcall.validator_id, dim), dim)
    /\ \A v \in DOMAIN weights_cache : weights_cache[v] = ComputeWeights(v, dim)

\* _weights_for has just answered from the cache, which holds another
\* validator too.
C28_Witness ==
    /\ WeightsReturned
    /\ dim = MaxDim
    /\ pcall.found.hit
    /\ pcall.found.size > 1

\* _weights_for has just computed again the weights of a validator that a
\* clear of the cache had dropped.
C28_WitnessAfterClear ==
    /\ WeightsReturned
    /\ dim = MaxDim
    /\ ~pcall.found.hit
    /\ pcall.found.again
    /\ pcall.found.size >= cache_max

\* _weights_for has just computed the weights of a validator never asked
\* for before.
C28_WitnessMiss == WeightsReturned /\ dim = MaxDim /\ ~pcall.found.again

\* A step in which a caller goes through _weights_for.
WeighStep ==
    /\ variant = "scorer"
    /\ pcall.pc = "idle"
    /\ pcall'.pc = "returned"
    /\ pcall'.op \in {"weights_for", "score_vector", "make_proof"}

\* C29: a miss that finds cache_max entries or more clears the cache and
\* leaves exactly the new validator in it; a miss below cache_max adds the
\* new validator and keeps every other entry; a hit changes nothing; and the
\* cache never holds more than cache_max entries.  (cache_max is 1024 in
\* the code and CacheMax here.)
C29_WholesaleClear ==
    /\ [](Cardinality(DOMAIN weights_cache) <= cache_max)
    /\ [][WeighStep =>
            IF pcall'.validator_id \in DOMAIN weights_cache
            THEN weights_cache' = weights_cache
            ELSE IF Cardinality(DOMAIN weights_cache) >= cache_max
            THEN DOMAIN weights_cache' = {pcall'.validator_id}
            ELSE /\ DOMAIN weights_cache' = DOMAIN weights_cache \cup {pcall'.validator_id}
                 /\ \A v \in DOMAIN weights_cache : weights_cache'[v] = weights_cache[v]]_vars

\* A miss has just found the cache full and left only the new validator.
C29_Witness ==
    /\ Weighed
    /\ ~pcall.found.hit
    /\ pcall.found.size = cache_max
    /\ DOMAIN weights_cache = {pcall.validator_id}

\* A miss has just added a validator to a cache that held another.
C29_WitnessAdd ==
    /\ Weighed
    /\ ~pcall.found.hit
    /\ pcall.found.size = 1
    /\ Cardinality(DOMAIN weights_cache) = 2

\* A hit has just left a full cache as it was.
C29_WitnessHit ==
    /\ Weighed
    /\ pcall.found.hit
    /\ pcall.found.size = cache_max
    /\ Cardinality(DOMAIN weights_cache) = cache_max

\* C30: with threads calling _weights_for on one scorer, the cache is
\* always one that calls made one after the other could leave: it never
\* holds more than cache_max entries.
C30_CacheWithinCapacity ==
    variant = "cache" => Cardinality(DOMAIN weights_cache) <= cache_max

\* ------------------------------------------------ ledger structure claims
\* The resident parents of a resident id.
LinksTo(parents_, k) == Elems(parents_[k]) \cap DOMAIN parents_

\* The resident ids reached from the ids of S by 1..n parent links.
RECURSIVE Ancestors(_, _, _)
Ancestors(parents_, S, n) ==
    IF n = 0 \/ S = {} THEN {}
    ELSE LET up == UNION {LinksTo(parents_, k) : k \in S}
         IN up \cup Ancestors(parents_, up, n - 1)

\* No resident id reaches itself by parent links.
Acyclic(parents_) ==
    \A k \in DOMAIN parents_ :
       k \notin Ancestors(parents_, {k}, Cardinality(DOMAIN parents_))

\* C31: the parent links among the resident nodes of the rolling ledger form
\* no cycle; in particular no resident node names itself as parent.
C31_RollingAcyclic ==
    variant = "rolling" =>
       /\ Acyclic(r_parents)
       /\ \A k \in DOMAIN r_parents : k \notin Elems(r_parents[k])

\* C31, the cycles of two nodes: no two resident nodes of the rolling ledger
\* name each other as parent.
C31_NoPairCycle ==
    variant = "rolling" =>
       \A k \in DOMAIN r_parents : \A j \in DOMAIN r_parents \ {k} :
          ~(j \in Elems(r_parents[k]) /\ k \in Elems(r_parents[j]))

\* The queue without the root anchor.
NonRoot(order) == SelectSeq(order, LAMBDA k : k # RootKey)

\* The non-root ids in the order of their latest insertion, after an add
\* step and before its evictions.
Inserted ==
    IF call.tx \in DOMAIN r_parents \/ ~call'.ok THEN NonRoot(r_order)
    ELSE Append(NonRoot(r_order), call.tx)

\* C32: the rolling ledger evicts non-root ids in the order of their
\* insertion.  The queue holds the resident non-root ids, oldest insertion
\* first; an add drops the n oldest of them, for some n, and keeps the others
\* in their order; each dropped id leaves the parent map, the child-count
\* map, the tips and the queue together.
C32_FifoEviction ==
    /\ [](variant = "rolling" =>
            /\ Elems(NonRoot(r_order)) = DOMAIN r_parents \ {RootKey}
            /\ \A i \in 1..Len(r_order) : \A j \in 1..Len(r_order) :
                  r_order[i] = r_order[j] => i = j)
    /\ [][RollingAddStep =>
            \E n \in 0..Len(Inserted) :
               /\ NonRoot(r_order') = SubSeq(Inserted, n + 1, Len(Inserted))
               /\ \A i \in 1..n :
                     /\ Inserted[i] \notin DOMAIN r_parents'
                     /\ Inserted[i] \notin DOMAIN r_child_count'
                     /\ Inserted[i] \notin r_tips'
                     /\ Inserted[i] \notin Elems(r_order')]_vars

\* An add has just evicted the two oldest ids at once and kept the id
\* inserted after them.
C32_Witness ==
    /\ variant = "rolling"
    /\ call.pc = "returned"
    /\ Cardinality(call.evicted) = 2
    /\ NonRoot(r_order) = <<call.tx>>
    /\ \A k \in call.evicted : k \notin DOMAIN r_parents

\* An add has just evicted the one older id and kept the id it inserted,
\* with the root anchor behind it in the queue.
C32_WitnessKeepsNewest ==
    /\ variant = "rolling"
    /\ call.pc = "returned"
    /\ Cardinality(call.evicted) = 1
    /\ r_order = <<call.tx, RootKey>>
    /\ call.evicted \cap DOMAIN r_parents = {}

\* ------------------------------------------------------- load map frame
\* A step in which a call on the router returns.
RouterCallStep == variant = "router" /\ rcall.pc = "idle" /\ rcall'.pc = "returned"

\* C33: the load map tracks exactly shard_0 .. shard_(num_shards - 1) in
\* every reachable state; record_shard_load on a configured shard leaves the
\* EWMA and the last-seen time of every other shard as they were; with None
\* or a shard that is not configured it changes nothing and creates no
\* entry; the lookups and distribute_batch change no EWMA.
C33_LoadMapFrame ==
    /\ [](variant = "router" =>
            /\ DOMAIN load = {ShardId(i) : i \in 0..(num_shards - 1)}
            /\ DOMAIN last_seen = DOMAIN load)
    /\ [][RouterCallStep =>
            IF rcall'.op = "record"
            THEN /\ \A o \in DOMAIN load \ {rcall'.shard_id} :
                       /\ o \in DOMAIN load' /\ load'[o] = load[o]
                       /\ o \in DOMAIN last_seen' /\ last_seen'[o] = last_seen[o]
                 /\ rcall'.shard_id \notin DOMAIN load
                       => load' = load /\ last_seen' = last_seen
            ELSE load' = load /\ last_seen' = last_seen]_vars

\* record_shard_load has just returned for the second shard of a router of
\* three: that shard has a load and a last-seen time, the others have none.
C33_Witness ==
    /\ variant = "router"
    /\ num_shards = 3
    /\ rcall.pc = "returned" /\ rcall.op = "record"
    /\ rcall.shard_id = ShardId(1)
    /\ load[ShardId(1)] # EwmaZero /\ last_seen[ShardId(1)] # 0
    /\ load[ShardId(0)] = EwmaZero /\ last_seen[ShardId(0)] = 0
    /\ load[ShardId(2)] = EwmaZero /\ last_seen[ShardId(2)] = 0

\* record_shard_load has just returned from a report of a positive latency
\* for a shard that is not configured, after a report for a configured one.
C33_WitnessUnconfigured ==
    /\ variant = "router"
    /\ rcall.pc = "returned" /\ rcall.op = "record"
    /\ rcall.shard_id = Unconfigured
    /\ rcall.latency_ms > 0
    /\ \E s \in DOMAIN load : load[s] # EwmaZero

\* distribute_batch has just returned on a router one of whose shards has a
\* load.
C33_WitnessDistribute ==
    /\ variant = "router"
    /\ rcall.pc = "returned" /\ rcall.op = "distribute"
    /\ rcall.transactions # <<>>
    /\ \E s \in DOMAIN load : load[s] # EwmaZero

\* ------------------------------------------------- strict ledger structure
\* C34: in the strict ledger every parent of every registered node is
\* registered, and was so before the node: the add that registers a node
\* finds all its parents registered and the node not among them; no step
\* removes a node or changes a parent tuple.  Hence the parent links form no
\* cycle and lead from every node to ROOT.
C34_StrictClosure ==
    /\ [](/\ \A k \in DOMAIN s_parents : Elems(s_parents[k]) \subseteq DOMAIN s_parents
          /\ Acyclic(s_parents)
          /\ \A k \in DOMAIN s_parents \ {ROOT_ANCHOR} :
                ROOT_ANCHOR \in Ancestors(s_parents, {k}, Cardinality(DOMAIN s_parents)))
    /\ [][/\ \A k \in DOMAIN s_parents :
                k \in DOMAIN s_parents' /\ s_parents'[k] = s_parents[k]
          /\ \A k \in DOMAIN s_parents' \ DOMAIN s_parents :
                /\ Elems(s_parents'[k]) \subseteq DOMAIN s_parents
                /\ k \notin Elems(s_parents'[k])]_vars

\* The strict ledger has just registered a node with two parents, one of
\* them a node registered before, which itself hangs on the root anchor.
C34_Witness ==
    /\ variant = "strict"
    /\ call.pc = "returned" /\ call.ok /\ ~call.known
    /\ Len(s_parents[call.tx]) = 2
    /\ \E p \in Elems(s_parents[call.tx]) :
          p # ROOT_ANCHOR /\ s_parents[p] = <<ROOT_ANCHOR>>

\* The strict ledger has just rejected an add that names its own id as parent.
C34_WitnessSelfParent ==
    /\ variant = "strict"
    /\ call.pc = "returned" /\ ~call.ok
    /\ call.tx \in Elems(call.parents)
    /\ call.tx \notin DOMAIN s_parents

\* The occurrences of p in the parent tuples of the nodes of S.
RECURSIVE TotalOccurrences(_, _, _)
TotalOccurrences(parents_, S, p) ==
    IF S = {} THEN 0
    ELSE LET k == CHOOSE x \in S : TRUE
         IN Occurrences(parents_[k], p) + TotalOccurrences(parents_, S \ {k}, p)

C36_RollingConsistent ==
    variant = "rolling" =>
       /\ Elems(r_order) = DOMAIN r_parents
       /\ Len(r_order) = Cardinality(DOMAIN r_parents)
       /\ DOMAIN r_child_count = DOMAIN r_parents
       /\ r_tips \subseteq DOMAIN r_parents
       /\ \A k \in DOMAIN r_parents :
             \A i \in 1..3 : (digest[k][i] % BloomBits) \in bloom

\* An add has just evicted a node and moved the root anchor to the back of
\* the queue, behind the id it inserted.
C36_Witness ==
    /\ variant = "rolling"
    /\ call.pc = "returned" /\ call.evicted # {}
    /\ r_order = <<call.tx, RootKey>>
    /\ r_tips \subseteq DOMAIN r_parents

\* The ledger holds the root anchor and three more ids, one over its limit,
\* and only the newest is a tip.
C36_WitnessFull ==
    /\ variant = "rolling"
    /\ Len(r_order) = 4
    /\ max_nodes = 3
    /\ Cardinality(r_tips) = 1

\* ---------------------------------------------------------- re-submission
\* The step in which add runs on the arguments of the accepted add its
\* caller kept.
ResubmitStep ==
    /\ RollingAddStep
    /\ resub.mode = "held"
    /\ call.tx = resub.tx
    /\ call.parents = resub.parents

\* C37 as claimed: once add(id, parents) has been accepted by the rolling
\* ledger, every later add(id, parents) with the same arguments is accepted.
C37_ResubmitAccepted == [][ResubmitStep => call'.ok]_vars

\* C37 as amended: once add(id, parents) has been accepted for an id that
\* was not resident, so that its parents were looked at, every later
\* add(id, parents) with the same arguments is accepted; and then each
\* parent is the root anchor, resident, or passes the bloom test.
C37_ResubmitRegistered ==
    [][(ResubmitStep /\ ~resub.known) =>
          /\ call'.ok
          /\ \A i \in 1..Len(call.parents) :
                \/ call.parents[i] = RootKey
                \/ call.parents[i] \in DOMAIN r_parents
                \/ \A j \in 1..3 : (digest[call.parents[i]][j] % BloomBits) \in bloom]_vars

\* An add accepted earlier for an id not resident then has just been
\* accepted again after the id and its parent were both evicted, on a
\* ledger whose bloom filter gives no false positive for the parent.
C37_Witness ==
    /\ variant = "rolling"
    /\ resub.mode = "held" /\ ~resub.known
    /\ call.pc = "returned" /\ call.ok /\ ~call.known
    /\ call.tx = resub.tx /\ call.parents = resub.parents
    /\ Len(call.parents) = 1
    /\ call.parents[1] \notin DOMAIN r_parents \cup {RootKey, call.tx}
    /\ bloom_hashes(digest, call.parents[1]) \cap bloom_hashes(digest, RootKey) = {}
    /\ bloom_hashes(digest, call.parents[1]) \cap bloom_hashes(digest, call.tx) = {}

\* An add accepted earlier for a resident id, with a parent never seen, has
\* just been rejected after the id was evicted.
C37_WitnessKnown ==
    /\ variant = "rolling"
    /\ resub.mode = "held" /\ resub.known
    /\ call.pc = "returned" /\ ~call.ok
    /\ call.tx = resub.tx /\ call.parents = resub.parents

\* ------------------------------------------------------- no load skew
\* No shard has a lower EWMA than another.
NoSkew == \A s \in DOMAIN load : \A t \in DOMAIN load : ~Less(load[s], load[t])

\* C38: whenever all shards have the same EWMA, as before any report, the
\* load-aware lookup of a key returns for every probe the shard the static
\* lookup returns: the owner of the virtual key that serves the key, or None
\* on an empty ring.
C38_NoSkewStatic ==
    (Looked("load_aware") /\ NoSkew)
    => rcall.result = IF DOMAIN ring = {} THEN None ELSE Walk(0)

\* A load-aware lookup with probe >= 2 has just returned the static shard
\* on a router all of whose shards have the same EWMA, which is not 0, the
\* walk having met another shard.
C38_Witness ==
    /\ Looked("load_aware")
    /\ DOMAIN ring # {}
    /\ NoSkew
    /\ rcall.probe >= 2
    /\ rcall.result = Walk(0)
    /\ load[rcall.result] # EwmaZero
    /\ \E j \in 1..rcall.probe : Walk(j) # Walk(0)

\* A load-aware lookup with probe 0 has just returned the static shard
\* before any report, the next virtual node belonging to another shard.
C38_WitnessProbe0 ==
    /\ Looked("load_aware")
    /\ DOMAIN ring # {}
    /\ records = 0
    /\ rcall.probe = 0
    /\ rcall.result = Walk(0)
    /\ Walk(1) # Walk(0)

\* ------------------------------------------------------------ proof binding
\* verify has just returned for a proof with the score and the hash of the
\* proof made and another (validator, transaction) pair.
VerifiedRebound ==
    /\ Verified
    /\ pcall.p.score = pcall.made.score
    /\ pcall.p.proof = pcall.made.proof
    /\ <<pcall.p.validator_id, pcall.p.tx_id>>
          # <<pcall.made.validator_id, pcall.made.tx_id>>

\* The text "validator_id|tx_id" of a proof.
Joined(p) == p.validator_id \o <<"|">> \o p.tx_id

\* An id without the separator.
Plain(id) == \A i \in 1..Len(id) : id[i] # "|"

\* C39 as claimed: verify rejects with "bad_proof" the hash and score of a
\* proof made for (V, T) when they are presented with any other pair
\* (V', T'), ids that contain "|" included.
C39_PairBinding == VerifiedRebound => pcall.result = <<FALSE, "bad_proof">>

\* C39 as amended: verify rejects with "bad_proof" the hash and score of a
\* proof made for (V, T) when they are presented with a pair (V', T') whose
\* text V'|T' differs from V|T, which every other pair of ids without "|"
\* does; a pair with the same text gets the verdict of the proof made.
C39_TextBinding ==
    VerifiedRebound =>
       /\ Joined(pcall.p) # Joined(pcall.made) => pcall.result = <<FALSE, "bad_proof">>
       /\ (/\ Plain(pcall.p.validator_id) /\ Plain(pcall.p.tx_id)
           /\ Plain(pcall.made.validator_id) /\ Plain(pcall.made.tx_id))
             => pcall.result = <<FALSE, "bad_proof">>
       /\ Joined(pcall.p) = Joined(pcall.made) => pcall.result # <<FALSE, "bad_proof">>

\* verify has just rejected the proof made for ("v", "t") presented for
\* ("w", "u"): both ids replaced, none with a separator.
C39_Witness ==
    /\ VerifiedRebound
    /\ pcall.made.validator_id = <<"v">> /\ pcall.made.tx_id = <<"t">>
    /\ pcall.p.validator_id = <<"w">> /\ pcall.p.tx_id = <<"u">>
    /\ pcall.result = <<FALSE, "bad_proof">>

\* verify has just passed the proof made for ("v", "t|t") presented for
\* ("v|t", "t").
C39_WitnessSameText ==
    /\ VerifiedRebound
    /\ pcall.made.validator_id = <<"v">> /\ pcall.made.tx_id = <<"t", "|", "t">>
    /\ pcall.p.validator_id = <<"v", "|", "t">> /\ pcall.p.tx_id = <<"t">>
    /\ pcall.result # <<FALSE, "bad_proof">>

====
